---------------------------- MODULE Spec2Model ----------------------------
(***************************************************************************)
(* State-machine model of the execution substrate of noir:                 *)
(*   - FoldBatch::next           (src/src/operator/fold_batch.rs)          *)
(*   - BinaryStartReceiver       (src/src/operator/start/binary.rs)        *)
(*   - NetworkReceiver           (src/src/network/receiver.rs)             *)
(*   - ContentWindowManager      (src/src/operator/window/descr/           *)
(*                                content_defined.rs)                      *)
(*   - RowCsvSource::setup, next (src/src/operator/source/csv_fast.rs)     *)
(* Each component has its own specifications (SpecFold, SpecBin,           *)
(* SpecBinLive, SpecBinTimeout, SpecBinFree, SpecWrap, SpecNet, SpecSel,   *)
(* SpecCw, SpecCwRun, SpecCsv, SpecCsvNext); the variables of the others   *)
(* stay at their initial value.                                            *)
(***************************************************************************)
EXTENDS Integers, Sequences, FiniteSets, TLC

VARIABLES
    \* ---- FoldBatch ----
    fb,        \* the fields of the FoldBatch operator
    fbIn,      \* the elements the previous operator holds at construction
    fbPulled,  \* number of prev.next() calls made so far
    fbOut,     \* the values returned by next(), in order
    \* ---- BinaryStartReceiver ----
    cfg,       \* instances / cached flag of the two sides, number of passes
    left,      \* SideReceiver of the left side
    right,     \* SideReceiver of the right side
    first_message,
    sent,      \* per upstream replica: how many elements it has sent
    chan,      \* per side: batches sent and not yet received (FIFO)
    out,       \* per origin (L, R, S: synthesized): the elements returned
    seq,       \* the elements returned, in order (single-replica sides only)
    ret,       \* what the last call of select returned
    iter,      \* index of the current iteration (1 + number of resets)
    hist,      \* bookkeeping of the run (counters used by the properties)
    pc,        \* "run" | "panicked"
    \* ---- NetworkReceiver ----
    rx,        \* per receiver: the fields of the NetworkReceiver
    buf,       \* per receiver: the messages its channel holds (FIFO)
    handles,   \* per receiver: the senders of its channel alive outside it
    pending,   \* per receiver: the message of a send that has not completed
    nstarted,  \* per receiver: number of sends started
    delivered, \* per receiver: the messages received, in order
    senderLog, \* per receiver: what the calls of sender() returned
    netRet,    \* what the last receive returned, and the channel it saw
    \* ---- ContentWindowManager ----
    cw,        \* the fields of the manager
    now,       \* the last value of Instant::now()
    cwCall,    \* the last call of process: element, time, state before, result
    cwIn,      \* the data elements processed since the last end of stream
    cwOut,     \* the windows returned since the last end of stream
    \* ---- RowCsvSource ----
    csvFile,   \* the bytes of the file
    csvOpts,   \* has_headers, and the number of replicas
    csvReader, \* per replica: the byte range of its reader, once set up
    \* ---- BinaryStartReceiver::process_side on arbitrary batches ----
    wr,        \* the side, its tag, the batches processed and what was returned
    \* ---- RowCsvSource::next ----
    csvSrc     \* the records of the chunk, the options, the fields, the values returned

fbVars == <<fb, fbIn, fbPulled, fbOut>>
binVars == <<cfg, left, right, first_message, sent, chan, out, seq, ret, iter, hist, pc>>
netVars == <<rx, buf, handles, pending, nstarted, delivered, senderLog, netRet>>
cwVars == <<cw, now, cwCall, cwIn, cwOut>>
csvVars == <<csvFile, csvOpts, csvReader>>
wrVars == <<wr>>
srcVars == <<csvSrc>>
vars == <<fb, fbIn, fbPulled, fbOut,
          cfg, left, right, first_message, sent, chan, out, seq, ret, iter, hist, pc,
          rx, buf, handles, pending, nstarted, delivered, senderLog, netRet,
          cw, now, cwCall, cwIn, cwOut,
          csvFile, csvOpts, csvReader, wr, csvSrc>>

\* The components a specification does not run.
NetIdle ==
    /\ rx = <<>> /\ buf = <<>> /\ handles = <<>> /\ pending = <<>> /\ nstarted = <<>>
    /\ delivered = <<>> /\ senderLog = <<>> /\ netRet = <<>>
CwIdle == cw = <<>> /\ now = 0 /\ cwCall = <<>> /\ cwIn = <<>> /\ cwOut = <<>>
CsvIdle == csvFile = <<>> /\ csvOpts = <<>> /\ csvReader = <<>>
WrIdle == wr = <<>>
SrcIdle == csvSrc = <<>>

(***************************************************************************)
(* StreamElement                                                           *)
(***************************************************************************)
Item(x) == [k |-> "Item", v |-> x]
Timestamped(x, t) == [k |-> "Timestamped", v |-> x, ts |-> t]
Watermark(t) == [k |-> "Watermark", ts |-> t]
FlushBatch == [k |-> "FlushBatch"]
Terminate == [k |-> "Terminate"]
FlushAndRestart == [k |-> "FlushAndRestart"]

\* Option<T>: None is the empty sequence, Some(x) is <<x>>.
None == <<>>
Some(x) == <<x>>
IsSome(o) == o # <<>>
Unwrap(o) == o[1]

Max(a, b) == IF a >= b THEN a ELSE b

RECURSIVE Flatten(_)
Flatten(ss) == IF ss = <<>> THEN <<>> ELSE Head(ss) \o Flatten(Tail(ss))

RECURSIVE SumSeq(_)
SumSeq(s) == IF s = <<>> THEN 0 ELSE Head(s) + SumSeq(Tail(s))

(***************************************************************************)
(* Bounds                                                                  *)
(***************************************************************************)
MaxIn == 4          \* longest enumerated upstream queue of FoldBatch
MaxBatch == 2       \* largest enumerated batch_size
MaxAfterEnd == 1    \* calls of next() modelled after the first Terminate

(***************************************************************************)
(* FoldBatch                                                               *)
(***************************************************************************)
\* The fold closure.  The operator is generic in it, so it is kept free: the
\* accumulator is the list of the batches it was applied to, in order.
FoldFn(acc, batch) == Append(acc, batch)

\* The closure of the tests, |a, b| for it in b { *a += it }, applied to the
\* recorded applications starting from init.
RECURSIVE SumFold(_, _)
SumFold(init, acc) ==
    IF acc = <<>> THEN init ELSE SumFold(init + SumSeq(Head(acc)), Tail(acc))

FoldBatchNew(batch_size) ==
    [ init |-> <<>>,
      accumulator |-> None,
      timestamp |-> None,
      max_watermark |-> None,
      received_end |-> FALSE,
      received_end_iter |-> FALSE,
      batch_size |-> batch_size,
      store |-> None ]

\* prev.next() of the test operator: the queued elements, then Terminate.
PrevNext(q) == IF q = <<>> THEN Terminate ELSE Head(q)
PrevRest(q) == IF q = <<>> THEN <<>> ELSE Tail(q)

\* FbPush folding only once the store holds more than batch_size elements.
FbPushLate(s, item) ==
    LET a1 == IF s.accumulator = None THEN Some(s.init) ELSE s.accumulator
        st1 == IF s.store = None THEN Some(<<>>) ELSE s.store
        st2 == Append(Unwrap(st1), item)
    IN  IF Len(st2) > s.batch_size
        THEN [s EXCEPT !.accumulator = Some(FoldFn(Unwrap(a1), st2)),
                       !.store = None]
        ELSE [s EXCEPT !.accumulator = a1, !.store = Some(st2)]

\* Item / Timestamped arm of the match: lazily create accumulator and store,
\* push, and fold a full store.
FbPush(s, item) ==
    LET a1 == IF s.accumulator = None THEN Some(s.init) ELSE s.accumulator
        st1 == IF s.store = None THEN Some(<<>>) ELSE s.store
        st2 == Append(Unwrap(st1), item)
    IN  IF Len(st2) = s.batch_size
        THEN [s EXCEPT !.accumulator = Some(FoldFn(Unwrap(a1), st2)),
                       !.store = None]
        ELSE [s EXCEPT !.accumulator = a1, !.store = Some(st2)]

\* FbStep with the FlushAndRestart arm forgetting received_end_iter.
FbStepNoIter(s, el) ==
    CASE el.k \in {"Terminate", "FlushAndRestart"} -> [s EXCEPT !.received_end = TRUE]
      [] el.k = "Watermark" ->
            [s EXCEPT !.max_watermark =
                Some(Max(IF IsSome(s.max_watermark)
                         THEN Unwrap(s.max_watermark) ELSE el.ts, el.ts))]
      [] el.k = "Item" -> FbPush(s, el.v)
      [] el.k = "Timestamped" ->
            FbPush([s EXCEPT !.timestamp =
                        Some(Max(IF IsSome(s.timestamp)
                                 THEN Unwrap(s.timestamp) ELSE el.ts, el.ts))],
                   el.v)
      [] el.k = "FlushBatch" -> s

\* FbStep with the FlushBatch arm emitting what has been gathered so far.
FbStepFlushBatchEmits(s, el) ==
    CASE el.k = "Terminate" -> [s EXCEPT !.received_end = TRUE]
      [] el.k = "FlushAndRestart" ->
            [s EXCEPT !.received_end = TRUE, !.received_end_iter = TRUE]
      [] el.k = "Watermark" ->
            [s EXCEPT !.max_watermark =
                Some(Max(IF IsSome(s.max_watermark)
                         THEN Unwrap(s.max_watermark) ELSE el.ts, el.ts))]
      [] el.k = "Item" -> FbPush(s, el.v)
      [] el.k = "Timestamped" ->
            FbPush([s EXCEPT !.timestamp =
                        Some(Max(IF IsSome(s.timestamp)
                                 THEN Unwrap(s.timestamp) ELSE el.ts, el.ts))],
                   el.v)
      [] el.k = "FlushBatch" ->
            [s EXCEPT !.received_end = TRUE, !.received_end_iter = TRUE]

\* FbStep creating the accumulator at the end of a pass that has none.
FbStepEagerInit(s, el) ==
    CASE el.k = "Terminate" ->
            [s EXCEPT !.received_end = TRUE,
                      !.accumulator = IF @ = None THEN Some(s.init) ELSE @]
      [] el.k = "FlushAndRestart" ->
            [s EXCEPT !.received_end = TRUE, !.received_end_iter = TRUE,
                      !.accumulator = IF @ = None THEN Some(s.init) ELSE @]
      [] el.k = "Watermark" ->
            [s EXCEPT !.max_watermark =
                Some(Max(IF IsSome(s.max_watermark)
                         THEN Unwrap(s.max_watermark) ELSE el.ts, el.ts))]
      [] el.k = "Item" -> FbPush(s, el.v)
      [] el.k = "Timestamped" ->
            FbPush([s EXCEPT !.timestamp =
                        Some(Max(IF IsSome(s.timestamp)
                                 THEN Unwrap(s.timestamp) ELSE el.ts, el.ts))],
                   el.v)
      [] el.k = "FlushBatch" -> s

\* One arm of the match on prev.next().
FbStep(s, el) ==
    CASE el.k = "Terminate" -> [s EXCEPT !.received_end = TRUE]
      [] el.k = "FlushAndRestart" ->
            [s EXCEPT !.received_end = TRUE, !.received_end_iter = TRUE]
      [] el.k = "Watermark" ->
            [s EXCEPT !.max_watermark =
                Some(Max(IF IsSome(s.max_watermark)
                         THEN Unwrap(s.max_watermark) ELSE el.ts, el.ts))]
      [] el.k = "Item" -> FbPush(s, el.v)
      [] el.k = "Timestamped" ->
            FbPush([s EXCEPT !.timestamp =
                        Some(Max(IF IsSome(s.timestamp)
                                 THEN Unwrap(s.timestamp) ELSE el.ts, el.ts))],
                   el.v)
      [] el.k = "FlushBatch" -> s

\* while !self.received_end { match self.prev.next() { ... } }
RECURSIVE FbLoop(_, _, _)
FbLoop(s, q, n) ==
    IF s.received_end THEN [s |-> s, q |-> q, n |-> n]
    ELSE FbLoop(FbStep(s, PrevNext(q)), PrevRest(q), n + 1)

\* Tail of next() shared by the variants below: watermark, restart, end.
FbEmitControl(s) ==
    IF IsSome(s.max_watermark)
    THEN [ s |-> [s EXCEPT !.max_watermark = None],
           r |-> Watermark(Unwrap(s.max_watermark)) ]
    ELSE IF s.received_end_iter
    THEN [ s |-> [s EXCEPT !.received_end_iter = FALSE, !.received_end = FALSE],
           r |-> FlushAndRestart ]
    ELSE [ s |-> s, r |-> Terminate ]

\* FbEmit without the final fold of a partial store.
FbEmitDropPartial(s) ==
    IF IsSome(s.accumulator)
    THEN [ s |-> [s EXCEPT !.accumulator = None, !.store = None, !.timestamp = None],
           r |-> IF IsSome(s.timestamp)
                 THEN Timestamped(Unwrap(s.accumulator), Unwrap(s.timestamp))
                 ELSE Item(Unwrap(s.accumulator)) ]
    ELSE FbEmitControl(s)

\* FbEmit reading the store without taking it.
FbEmitKeepStore(s) ==
    IF IsSome(s.accumulator)
    THEN LET acc0 == Unwrap(s.accumulator)
             acc == IF IsSome(s.store) /\ Unwrap(s.store) # <<>>
                    THEN FoldFn(acc0, Unwrap(s.store)) ELSE acc0
         IN  [ s |-> [s EXCEPT !.accumulator = None, !.timestamp = None],
               r |-> IF IsSome(s.timestamp)
                     THEN Timestamped(acc, Unwrap(s.timestamp))
                     ELSE Item(acc) ]
    ELSE FbEmitControl(s)

\* FbEmit sending the watermark before the aggregate.
FbEmitWatermarkFirst(s) ==
    IF IsSome(s.max_watermark)
    THEN [ s |-> [s EXCEPT !.max_watermark = None],
           r |-> Watermark(Unwrap(s.max_watermark)) ]
    ELSE IF IsSome(s.accumulator)
    THEN LET acc0 == Unwrap(s.accumulator)
             acc == IF IsSome(s.store) /\ Unwrap(s.store) # <<>>
                    THEN FoldFn(acc0, Unwrap(s.store)) ELSE acc0
         IN  [ s |-> [s EXCEPT !.accumulator = None, !.store = None,
                               !.timestamp = None],
               r |-> IF IsSome(s.timestamp)
                     THEN Timestamped(acc, Unwrap(s.timestamp))
                     ELSE Item(acc) ]
    ELSE FbEmitControl(s)

\* FbEmit clearing received_end when it returns Terminate.
FbEmitReopen(s) ==
    IF IsSome(s.accumulator)
    THEN LET acc0 == Unwrap(s.accumulator)
             acc == IF IsSome(s.store) /\ Unwrap(s.store) # <<>>
                    THEN FoldFn(acc0, Unwrap(s.store)) ELSE acc0
         IN  [ s |-> [s EXCEPT !.accumulator = None, !.store = None,
                               !.timestamp = None],
               r |-> IF IsSome(s.timestamp)
                     THEN Timestamped(acc, Unwrap(s.timestamp))
                     ELSE Item(acc) ]
    ELSE IF IsSome(s.max_watermark) \/ s.received_end_iter
    THEN FbEmitControl(s)
    ELSE [ s |-> [s EXCEPT !.received_end = FALSE], r |-> Terminate ]

\* FbEmit reading the timestamp without taking it.
FbEmitKeepTimestamp(s) ==
    IF IsSome(s.accumulator)
    THEN LET acc0 == Unwrap(s.accumulator)
             acc == IF IsSome(s.store) /\ Unwrap(s.store) # <<>>
                    THEN FoldFn(acc0, Unwrap(s.store)) ELSE acc0
         IN  [ s |-> [s EXCEPT !.accumulator = None, !.store = None],
               r |-> IF IsSome(s.timestamp)
                     THEN Timestamped(acc, Unwrap(s.timestamp))
                     ELSE Item(acc) ]
    ELSE FbEmitControl(s)

\* The part of next() after the loop: what is returned and the new fields.
FbEmit(s) ==
    IF IsSome(s.accumulator)
    THEN LET acc0 == Unwrap(s.accumulator)
             acc == IF IsSome(s.store) /\ Unwrap(s.store) # <<>>
                    THEN FoldFn(acc0, Unwrap(s.store)) ELSE acc0
         IN  [ s |-> [s EXCEPT !.accumulator = None, !.store = None,
                               !.timestamp = None],
               r |-> IF IsSome(s.timestamp)
                     THEN Timestamped(acc, Unwrap(s.timestamp))
                     ELSE Item(acc) ]
    ELSE IF IsSome(s.max_watermark)
    THEN [ s |-> [s EXCEPT !.max_watermark = None],
           r |-> Watermark(Unwrap(s.max_watermark)) ]
    ELSE IF s.received_end_iter
    THEN [ s |-> [s EXCEPT !.received_end_iter = FALSE, !.received_end = FALSE],
           r |-> FlushAndRestart ]
    ELSE [ s |-> s, r |-> Terminate ]

\* FoldBatch::next
FbNextResult(s, q) ==
    LET l == FbLoop(s, q, 0)
        e == FbEmit(l.s)
    IN  [ s |-> e.s, q |-> l.q, n |-> l.n, r |-> e.r ]

\* The elements the enumerated upstream queues are made of.
FbAlphabet ==
    { Item(1), Item(2), Timestamped(3, 1), Timestamped(3, 2),
      Watermark(1), Watermark(2), FlushBatch, FlushAndRestart }

FbQueues == UNION { [1..n -> FbAlphabet] : n \in 0..MaxIn }

\* The queues of the unit tests of fold_batch.rs (batch_size 4).
TestWithoutTimestamps == [i \in 1..10 |-> Item(i - 1)]
TestTimestamped ==
    << Timestamped(0, 1), Timestamped(1, 2), Timestamped(2, 3), Watermark(4) >>
TestIterEnd ==
    << Item(0), Item(1), Item(2), FlushAndRestart,
       Item(3), Item(4), Item(5), FlushAndRestart >>
FbTests == { TestWithoutTimestamps, TestTimestamped, TestIterEnd }

BinIdle ==
    /\ cfg = <<>> /\ left = <<>> /\ right = <<>> /\ first_message = FALSE
    /\ sent = <<>> /\ chan = <<>> /\ out = <<>> /\ seq = <<>> /\ ret = <<>> /\ iter = 0
    /\ hist = <<>> /\ pc = "idle"

InitFold ==
    /\ \/ \E q \in FbQueues, b \in 1..MaxBatch :
            fbIn = q /\ fb = FoldBatchNew(b)
       \/ \E q \in FbTests : fbIn = q /\ fb = FoldBatchNew(4)
    /\ fbPulled = 0
    /\ fbOut = <<>>
    /\ BinIdle /\ NetIdle /\ CwIdle /\ CsvIdle /\ WrIdle /\ SrcIdle

FbTerminates == Cardinality({ i \in 1..Len(fbOut) : fbOut[i].k = "Terminate" })

\* The worker calls next(); calls after the first Terminate are modelled
\* MaxAfterEnd times.
FoldNext ==
    /\ FbTerminates <= MaxAfterEnd
    /\ LET res == FbNextResult(fb, IF fbPulled >= Len(fbIn) THEN <<>>
                                   ELSE SubSeq(fbIn, fbPulled + 1, Len(fbIn)))
       IN  /\ fb' = res.s
           /\ fbPulled' = fbPulled + res.n
           /\ fbOut' = Append(fbOut, res.r)
    /\ UNCHANGED <<fbIn, binVars, netVars, cwVars, csvVars, wrVars, srcVars>>

NextFold == FoldNext

SpecFold == InitFold /\ [][NextFold]_vars


(***************************************************************************)
(* BinaryStartReceiver                                                     *)
(***************************************************************************)
MaxInstances == 2   \* largest number of upstream replicas of a side
MaxReplicas == 3    \* largest number of upstream replicas of the two sides together
MaxPasses == 2      \* largest number of passes of a non-cached side
MaxSynth == 2       \* calls of select modelled once both sides are terminated
MaxInFlight == 1    \* batches a side's channel holds at once in the model
CHANNEL_CAPACITY == 10
\* usize::MAX, the result of 0 - 1 in a build without overflow checks.  TLC's
\* integers are 32 bits wide; no modelled run counts that far down again.
UsizeMax == 2147483647

Sides == {"L", "R"}
Other(s) == IF s = "L" THEN "R" ELSE "L"

\* BinaryElement
BLeft(x) == [t |-> "Left", x |-> x]
BRight(x) == [t |-> "Right", x |-> x]
LeftEnd == [t |-> "LeftEnd"]
RightEnd == [t |-> "RightEnd"]
Wrap(tag, x) == IF tag = "L" THEN BLeft(x) ELSE BRight(x)
EndOf(tag) == IF tag = "L" THEN LeftEnd ELSE RightEnd

\* MapWrap turning a Timestamped into an Item.
MapWrapNoTimestamp(el, tag) ==
    CASE el.k = "Item" -> Item(Wrap(tag, el.v))
      [] el.k = "Timestamped" -> Item(Wrap(tag, el.v))
      [] OTHER -> el

\* StreamElement::map with the wrap function of a side
MapWrap(el, tag) ==
    CASE el.k = "Item" -> Item(Wrap(tag, el.v))
      [] el.k = "Timestamped" -> Timestamped(Wrap(tag, el.v), el.ts)
      [] OTHER -> el

SideNew(cached) ==
    [ instances |-> 0,
      missing_flush_and_restart |-> 0,
      missing_terminate |-> 0,
      cached |-> cached,
      cache |-> <<>>,
      cache_full |-> FALSE,
      cache_pointer |-> 0 ]

SideSetup(side, n) ==
    [side EXCEPT !.instances = n,
                 !.missing_flush_and_restart = n,
                 !.missing_terminate = n]

\* SideReset without the rewind of the cache pointer.
SideResetNoRewind(side) ==
    [side EXCEPT !.missing_flush_and_restart = side.instances,
                 !.cache_full = IF side.cached THEN TRUE ELSE @]

\* SideReset that does not mark the cache as full.
SideResetNoFull(side) ==
    [side EXCEPT !.missing_flush_and_restart = side.instances,
                 !.cache_pointer = IF side.cached THEN 0 ELSE @]

\* SideReset setting back the count of the Terminate as well.
SideResetTerminate(side) ==
    [side EXCEPT !.missing_flush_and_restart = side.instances,
                 !.missing_terminate = side.instances,
                 !.cache_full = IF side.cached THEN TRUE ELSE @,
                 !.cache_pointer = IF side.cached THEN 0 ELSE @]

SideReset(side) ==
    [side EXCEPT !.missing_flush_and_restart = side.instances,
                 !.cache_full = IF side.cached THEN TRUE ELSE @,
                 !.cache_pointer = IF side.cached THEN 0 ELSE @]

IsTerminated(side) == side.missing_terminate = 0
\* IsEnded counting the FlushAndRestart on a cached side too.
IsEndedByFlush(side) == side.missing_flush_and_restart = 0

IsEnded(side) ==
    IF side.cached THEN IsTerminated(side) ELSE side.missing_flush_and_restart = 0
CacheFinished(side) == side.cache_pointer >= Len(side.cache)

\* NextCachedItem taking the batch out of the cache.
NextCachedItemTake(side) ==
    [ side |-> [side EXCEPT
                  !.cache = Tail(@),
                  !.missing_flush_and_restart =
                      IF Len(side.cache) <= 1 THEN 0 ELSE @],
      msg |-> Head(side.cache) ]

\* SideReceiver::next_cached_item: the new side and the batch returned.
NextCachedItem(side) ==
    LET p == side.cache_pointer + 1
    IN  [ side |-> [side EXCEPT
                      !.cache_pointer = p,
                      !.missing_flush_and_restart =
                          IF p >= Len(side.cache) THEN 0 ELSE @],
          msg |-> side.cache[p] ]

\* usize `-= 1`: panics at 0 with overflow checks, wraps without.
Dec(n) == IF n = 0 THEN UsizeMax ELSE n - 1

\* ProcessItems emitting the end marker at every FlushAndRestart.
RECURSIVE ProcessItemsEager(_, _, _)
ProcessItemsEager(side, msg, tag) ==
    IF msg = <<>> THEN [side |-> side, data |-> <<>>, under |-> FALSE]
    ELSE LET item == Head(msg)
             isF == item.k = "FlushAndRestart"
             isT == item.k = "Terminate"
             s1 == [side EXCEPT
                      !.missing_flush_and_restart = IF isF THEN Dec(@) ELSE @,
                      !.missing_terminate = IF isT THEN Dec(@) ELSE @]
             res == (IF isF THEN << Item(EndOf(tag)) >> ELSE <<>>)
                    \o (IF ~side.cached \/ ~isT
                        THEN << MapWrap(item, tag) >> ELSE <<>>)
             rest == ProcessItemsEager(s1, Tail(msg), tag)
         IN  [ side |-> rest.side,
               data |-> res \o rest.data,
               under |-> \/ isF /\ side.missing_flush_and_restart = 0
                         \/ isT /\ side.missing_terminate = 0
                         \/ rest.under ]

\* ProcessItems forwarding the Terminate of a cached side like any element.
RECURSIVE ProcessItemsKeepTerminate(_, _, _)
ProcessItemsKeepTerminate(side, msg, tag) ==
    IF msg = <<>> THEN [side |-> side, data |-> <<>>, under |-> FALSE]
    ELSE LET item == Head(msg)
             isF == item.k = "FlushAndRestart"
             isT == item.k = "Terminate"
             s1 == [side EXCEPT
                      !.missing_flush_and_restart = IF isF THEN Dec(@) ELSE @,
                      !.missing_terminate = IF isT THEN Dec(@) ELSE @]
             res == (IF isF /\ s1.missing_flush_and_restart = 0
                     THEN << Item(EndOf(tag)) >> ELSE <<>>)
                    \o << MapWrap(item, tag) >>
             rest == ProcessItemsKeepTerminate(s1, Tail(msg), tag)
         IN  [ side |-> rest.side,
               data |-> res \o rest.data,
               under |-> \/ isF /\ side.missing_flush_and_restart = 0
                         \/ isT /\ side.missing_terminate = 0
                         \/ rest.under ]

\* The flat_map closure of process_side over the elements of the batch.
RECURSIVE ProcessItems(_, _, _)
ProcessItems(side, msg, tag) ==
    IF msg = <<>> THEN [side |-> side, data |-> <<>>, under |-> FALSE]
    ELSE LET item == Head(msg)
             isF == item.k = "FlushAndRestart"
             isT == item.k = "Terminate"
             s1 == [side EXCEPT
                      !.missing_flush_and_restart = IF isF THEN Dec(@) ELSE @,
                      !.missing_terminate = IF isT THEN Dec(@) ELSE @]
             res == (IF isF /\ s1.missing_flush_and_restart = 0
                     THEN << Item(EndOf(tag)) >> ELSE <<>>)
                    \o (IF ~side.cached \/ ~isT
                        THEN << MapWrap(item, tag) >> ELSE <<>>)
             rest == ProcessItems(s1, Tail(msg), tag)
         IN  [ side |-> rest.side,
               data |-> res \o rest.data,
               under |-> \/ isF /\ side.missing_flush_and_restart = 0
                         \/ isT /\ side.missing_terminate = 0
                         \/ rest.under ]

\* BinaryStartReceiver::process_side
ProcessSide(side, msg, tag) ==
    LET r == ProcessItems(side, msg, tag)
    IN  [ side |-> IF side.cached
                   THEN [r.side EXCEPT !.cache = Append(@, r.data),
                                       !.cache_pointer = Len(r.side.cache) + 1]
                   ELSE r.side,
          msg |-> r.data,
          under |-> r.under ]

(***************************************************************************)
(* The upstream replicas of the two sides and their channels               *)
(***************************************************************************)
\* cfg = [lc, rc: the cache flags given to new; li, ri: replicas per side;
\*        passes: FlushAndRestart-closed passes sent by a non-cached side]
CfgCached(s) == IF s = "L" THEN cfg.lc ELSE cfg.rc
CfgInstances(s) == IF s = "L" THEN cfg.li ELSE cfg.ri
\* A cached side is read once in full: it sends a single pass.
CfgPasses(s) == IF CfgCached(s) THEN 1 ELSE cfg.passes

\* The data replica r of side s sends in pass p (payloads are all distinct).
PassData(s, r, p) ==
    IF s = "L"
    THEN IF r = 1 THEN << Item(1 + 100 * (p - 1)), Item(2 + 100 * (p - 1)) >>
         ELSE IF r = 2 THEN << Item(3 + 100 * (p - 1)) >>
         ELSE <<>>
    ELSE IF r = 1 THEN << Item(10 * p) >> ELSE <<>>
PassLen(s, r) == Len(PassData(s, r, 1)) + 1

RECURSIVE PassesFrom(_, _, _, _)
PassesFrom(s, r, p, n) ==
    IF p > n THEN << Terminate >>
    ELSE PassData(s, r, p) \o << FlushAndRestart >> \o PassesFrom(s, r, p + 1, n)
\* The whole element stream of a replica: ((Item)* FlushAndRestart)+ Terminate
StreamOf(s, r) == PassesFrom(s, r, 1, CfgPasses(s))

\* All the senders of the side are done (and dropped): the channel is closed.
Closed(s) == \A r \in 1..CfgInstances(s) : sent[s][r] = Len(StreamOf(s, r))

\* A replica sends its next batch of n elements.  The sender flushes at every
\* FlushAndRestart and at Terminate, so a batch ends there; the replicas of a
\* side start pass p+1 only when all of them have closed pass p.
Send(s, r, n) ==
    /\ pc = "run"
    /\ r <= CfgInstances(s)
    /\ LET st == StreamOf(s, r)
           a == sent[s][r] + 1
           b == sent[s][r] + n
       IN  /\ b <= Len(st)
           /\ \A i \in a..(b - 1) : st[i].k # "FlushAndRestart"
           /\ st[a].k # "Terminate" =>
                 \A q \in 1..CfgInstances(s) :
                     sent[s][q] >= ((a - 1) \div PassLen(s, r)) * PassLen(s, q)
           /\ Len(chan[s]) < CHANNEL_CAPACITY /\ Len(chan[s]) < MaxInFlight
           /\ chan' = [chan EXCEPT ![s] = Append(@, SubSeq(st, a, b))]
    /\ sent' = [sent EXCEPT ![s][r] = @ + n]
    /\ UNCHANGED <<cfg, left, right, first_message, out, seq, ret, iter, hist, pc, fbVars, netVars, cwVars, csvVars, wrVars, srcVars>>

(***************************************************************************)
(* BinaryStartReceiver::select                                             *)
(***************************************************************************)
MkOut(l, r, fm, take, kind, src, msg) ==
    [ left |-> l, right |-> r, first_message |-> fm, take |-> take,
      ret |-> [kind |-> kind, src |-> src, msg |-> msg] ]

\* The head of the channel of side s goes through process_side.  A counter
\* decremented at 0 panics (overflow checks) or wraps (no overflow checks).
Received(l, r, fm, s) ==
    LET pr == ProcessSide(IF s = "L" THEN l ELSE r, Head(chan[s]), s)
        ok == MkOut(IF s = "L" THEN pr.side ELSE l,
                    IF s = "R" THEN pr.side ELSE r, fm, s, "batch", s, pr.msg)
    IN  IF pr.under THEN { ok, MkOut(l, r, fm, s, "panic", "-", <<>>) } ELSE { ok }

\* An Err(Disconnected): returned by recv_timeout, a panic in recv
\* (`.expect("receiver failed")`).
Disconnected(l, r, fm, timeout) ==
    MkOut(l, r, fm, "none", IF timeout THEN "disconnected" ELSE "panic", "-", <<>>)

\* RecvOn where a receive that times out may take the waiting batch with it.
RecvOnAbandon(l, r, fm, s, timeout) ==
    IF chan[s] # <<>>
    THEN Received(l, r, fm, s)
           \cup (IF timeout THEN { MkOut(l, r, fm, s, "timeout", "-", <<>>) } ELSE {})
    ELSE IF Closed(s) THEN { Disconnected(l, r, fm, timeout) }
    ELSE IF timeout THEN { MkOut(l, r, fm, "none", "timeout", "-", <<>>) }
    ELSE {}

\* SideReceiver::recv on side s: a batch, a timeout, a disconnection; a
\* recv without timeout on an empty open channel blocks (no outcome).
RecvOn(l, r, fm, s, timeout) ==
    IF chan[s] # <<>> THEN Received(l, r, fm, s)
    ELSE IF Closed(s) THEN { Disconnected(l, r, fm, timeout) }
    ELSE IF timeout THEN { MkOut(l, r, fm, "none", "timeout", "-", <<>>) }
    ELSE {}

\* left.select(right) / left.select_timeout(right, timeout): any ready side.
SelectBoth(l, r, fm, timeout) ==
    LET ready == UNION { IF chan[s] # <<>> THEN Received(l, r, fm, s)
                         ELSE IF Closed(s) THEN { Disconnected(l, r, fm, timeout) }
                         ELSE {} : s \in Sides }
    IN  IF ready # {} THEN ready
        ELSE IF timeout THEN { MkOut(l, r, fm, "none", "timeout", "-", <<>>) }
        ELSE {}

\* NumTerminates counting one Terminate for the cached side.
NumTerminatesOne(l, r) == IF l.cached \/ r.cached THEN 1 ELSE 0

NumTerminates(l, r) ==
    IF l.cached THEN l.instances ELSE IF r.cached THEN r.instances ELSE 0

\* Whether select starts with the reset of the two sides.
SelectResets(l, r) ==
    IsEnded(l) /\ IsEnded(r) /\ CacheFinished(l) /\ CacheFinished(r)

\* SelectData selecting on both sides whether or not one is terminated.
SelectDataNoDegrade(l, r, fm, timeout) ==
    IF fm /\ (l.cached \/ r.cached)
    THEN (IF (~l.cached \/ l.cache_full) /\ (~r.cached \/ r.cache_full)
          THEN {} ELSE { MkOut(l, r, FALSE, "none", "panic", "-", <<>>) })
         \cup RecvOn(l, r, FALSE, IF l.cached THEN "R" ELSE "L", timeout)
    ELSE IF l.cached /\ l.cache_full /\ ~CacheFinished(l)
    THEN { MkOut(NextCachedItem(l).side, r, fm, "none",
                 "batch", "cache", NextCachedItem(l).msg) }
    ELSE IF r.cached /\ r.cache_full /\ ~CacheFinished(r)
    THEN { MkOut(l, NextCachedItem(r).side, fm, "none",
                 "batch", "cache", NextCachedItem(r).msg) }
    ELSE IF IsEnded(l) THEN RecvOn(l, r, fm, "R", timeout)
    ELSE IF IsEnded(r) THEN RecvOn(l, r, fm, "L", timeout)
    ELSE SelectBoth(l, r, fm, timeout)

\* SelectData without the branches that leave an ended side alone.
SelectDataNoBarrier(l, r, fm, timeout) ==
    IF fm /\ (l.cached \/ r.cached)
    THEN (IF (~l.cached \/ l.cache_full) /\ (~r.cached \/ r.cache_full)
          THEN {} ELSE { MkOut(l, r, FALSE, "none", "panic", "-", <<>>) })
         \cup RecvOn(l, r, FALSE, IF l.cached THEN "R" ELSE "L", timeout)
    ELSE IF l.cached /\ l.cache_full /\ ~CacheFinished(l)
    THEN { MkOut(NextCachedItem(l).side, r, fm, "none",
                 "batch", "cache", NextCachedItem(l).msg) }
    ELSE IF r.cached /\ r.cache_full /\ ~CacheFinished(r)
    THEN { MkOut(l, NextCachedItem(r).side, fm, "none",
                 "batch", "cache", NextCachedItem(r).msg) }
    ELSE CASE ~IsTerminated(l) /\ ~IsTerminated(r) -> SelectBoth(l, r, fm, timeout)
           [] IsTerminated(l) /\ ~IsTerminated(r) -> RecvOn(l, r, fm, "R", timeout)
           [] ~IsTerminated(l) /\ IsTerminated(r) -> RecvOn(l, r, fm, "L", timeout)
           [] OTHER -> { Disconnected(l, r, fm, timeout) }

\* The fields as they are in a call of select right after the reset block
\* (lines 218-227), where the debug assertions are evaluated.
SelectAfterReset ==
    LET rs == SelectResets(left, right)
    IN  [ left |-> IF rs THEN SideReset(left) ELSE left,
          right |-> IF rs THEN SideReset(right) ELSE right,
          first_message |-> IF rs THEN TRUE ELSE first_message,
          reset |-> rs ]

\* The part of select after the reset: which side is asked.
SelectData(l, r, fm, timeout) ==
    IF fm /\ (l.cached \/ r.cached)
    THEN (IF (~l.cached \/ l.cache_full) /\ (~r.cached \/ r.cache_full)
          THEN {} ELSE { MkOut(l, r, FALSE, "none", "panic", "-", <<>>) })
         \cup RecvOn(l, r, FALSE, IF l.cached THEN "R" ELSE "L", timeout)
    ELSE IF l.cached /\ l.cache_full /\ ~CacheFinished(l)
    THEN { MkOut(NextCachedItem(l).side, r, fm, "none",
                 "batch", "cache", NextCachedItem(l).msg) }
    ELSE IF r.cached /\ r.cache_full /\ ~CacheFinished(r)
    THEN { MkOut(l, NextCachedItem(r).side, fm, "none",
                 "batch", "cache", NextCachedItem(r).msg) }
    ELSE IF IsEnded(l) THEN RecvOn(l, r, fm, "R", timeout)
    ELSE IF IsEnded(r) THEN RecvOn(l, r, fm, "L", timeout)
    ELSE CASE ~IsTerminated(l) /\ ~IsTerminated(r) -> SelectBoth(l, r, fm, timeout)
           [] IsTerminated(l) /\ ~IsTerminated(r) -> RecvOn(l, r, fm, "R", timeout)
           [] ~IsTerminated(l) /\ IsTerminated(r) -> RecvOn(l, r, fm, "L", timeout)
           [] OTHER -> { Disconnected(l, r, fm, timeout) }

\* The outcomes of select(timeout) in the current state; `reset` tells whether
\* the call reset the sides, `first` whether it took the first-message branch.
SelectOutcomes(timeout) ==
    IF IsTerminated(left) /\ IsTerminated(right) /\ NumTerminates(left, right) > 0
    THEN { MkOut(left, right, first_message, "none", "batch", "synth",
                 [i \in 1..NumTerminates(left, right) |-> Terminate])
           @@ [reset |-> FALSE, first |-> FALSE] }
    ELSE LET rs == SelectResets(left, right)
             l == IF rs THEN SideReset(left) ELSE left
             r == IF rs THEN SideReset(right) ELSE right
             fm == IF rs THEN TRUE ELSE first_message
         IN  { o @@ [reset |-> rs, first |-> fm /\ (l.cached \/ r.cached)] :
                 o \in SelectData(l, r, fm, timeout) }

CachedSide == IF left.cached THEN "L" ELSE IF right.cached THEN "R" ELSE "-"
CountKind(msg, kind) == Cardinality({ i \in 1..Len(msg) : msg[i].k = kind })

\* The bookkeeping after an outcome of select.
HistAfter(o) ==
    LET h0 == IF o.reset
              THEN [hist EXCEPT !.liveNC = FALSE, !.far = [s \in Sides |-> 0]]
              ELSE hist
        got == o.ret.kind = "batch" /\ o.take \in Sides
    IN  [h0 EXCEPT
           !.synth = IF o.ret.src = "synth" THEN @ + 1 ELSE @,
           !.lostFirst = @ \/ (o.first /\ o.ret.kind \in {"timeout", "disconnected"}),
           !.liveNC = @ \/ (got /\ o.take # CachedSide),
           !.far = IF got
                   THEN [@ EXCEPT ![o.take] =
                            @ + CountKind(Head(chan[o.take]), "FlushAndRestart")]
                   ELSE @]

\* The origin of a returned batch: a side (live or from its cache), or S for
\* the synthesized Terminate elements.
OriginOf(o) ==
    IF o.ret.src = "cache" THEN CachedSide
    ELSE IF o.ret.src = "synth" THEN "S" ELSE o.ret.src

\* The elements of a returned batch as recorded downstream, with whether
\* they were received live and the iteration they were returned in.
Emitted(o, it) ==
    [i \in 1..Len(o.ret.msg) |->
        [ e |-> o.ret.msg[i], live |-> o.ret.src \in Sides, it |-> it ]]
EmittedSeq(o, it) ==
    [i \in 1..Len(o.ret.msg) |->
        [ e |-> o.ret.msg[i], side |-> OriginOf(o),
          live |-> o.ret.src \in Sides, it |-> it ]]

DoSelect(timeout) ==
    /\ pc = "run"
    /\ hist.synth < MaxSynth
    /\ \E o \in SelectOutcomes(timeout) :
          /\ left' = o.left
          /\ right' = o.right
          /\ first_message' = o.first_message
          /\ chan' = IF o.take \in Sides THEN [chan EXCEPT ![o.take] = Tail(@)] ELSE chan
          /\ ret' = o.ret
          /\ iter' = IF o.reset THEN iter + 1 ELSE iter
          /\ out' = IF o.ret.kind = "batch"
                    THEN [out EXCEPT ![OriginOf(o)] = @ \o Emitted(o, iter')]
                    ELSE out
          /\ seq' = IF o.ret.kind = "batch" /\ cfg.li = 1 /\ cfg.ri = 1
                    THEN seq \o EmittedSeq(o, iter') ELSE seq
          /\ hist' = HistAfter(o)
          /\ pc' = IF o.ret.kind = "panic" THEN "panicked" ELSE "run"
    /\ UNCHANGED <<cfg, sent, fbVars, netVars, cwVars, csvVars, wrVars, srcVars>>

\* StartReceiver::recv
Recv == DoSelect(FALSE)
\* StartReceiver::recv_timeout
RecvTimeout == DoSelect(TRUE)

\* New without the assertion on the two cache flags.
NewNoAssert ==
    /\ pc = "new"
    /\ left' = SideNew(cfg.lc)
    /\ right' = SideNew(cfg.rc)
    /\ pc' = "setup"
    /\ UNCHANGED <<cfg, first_message, sent, chan, out, seq, ret, iter, hist, fbVars, netVars, cwVars, csvVars, wrVars, srcVars>>

\* BinaryStartReceiver::new: both sides cached fails the assertion.
New ==
    /\ pc = "new"
    /\ IF ~(cfg.lc /\ cfg.rc)
       THEN /\ left' = SideNew(cfg.lc)
            /\ right' = SideNew(cfg.rc)
            /\ pc' = "setup"
       ELSE /\ pc' = "rejected"
            /\ UNCHANGED <<left, right>>
    /\ UNCHANGED <<cfg, first_message, sent, chan, out, seq, ret, iter, hist, fbVars, netVars, cwVars, csvVars, wrVars, srcVars>>

\* StartReceiver::setup
Setup ==
    /\ pc = "setup"
    /\ left' = SideSetup(left, cfg.li)
    /\ right' = SideSetup(right, cfg.ri)
    /\ pc' = "run"
    /\ UNCHANGED <<cfg, first_message, sent, chan, out, seq, ret, iter, hist, fbVars, netVars, cwVars, csvVars, wrVars, srcVars>>

FbIdle ==
    /\ fb = <<>> /\ fbIn = <<>> /\ fbPulled = 0 /\ fbOut = <<>>

InitBin ==
    /\ cfg \in [ lc : BOOLEAN, rc : BOOLEAN, li : 1..MaxInstances,
                 ri : 1..MaxInstances, passes : 1..MaxPasses ]
    /\ cfg.li + cfg.ri <= MaxReplicas
    /\ left = <<>>
    /\ right = <<>>
    /\ first_message = FALSE
    /\ sent = [s \in Sides |-> [r \in 1..CfgInstances(s) |-> 0]]
    /\ chan = [s \in Sides |-> <<>>]
    /\ out = [s \in {"L", "R", "S"} |-> <<>>]
    /\ seq = <<>>
    /\ ret = [kind |-> "none", src |-> "-", msg |-> <<>>]
    /\ iter = 1
    /\ hist = [synth |-> 0, lostFirst |-> FALSE, liveNC |-> FALSE,
               far |-> [s \in Sides |-> 0]]
    /\ pc = "new"
    /\ FbIdle /\ NetIdle /\ CwIdle /\ CsvIdle /\ WrIdle /\ SrcIdle

NextBin ==
    \/ New
    \/ Setup
    \/ \E s \in Sides, r \in 1..MaxInstances, n \in 1..3 : Send(s, r, n)
    \/ Recv
    \/ RecvTimeout

SpecBin == InitBin /\ [][NextBin]_vars

\* A worker that keeps calling recv(), never recv_timeout(), under fair
\* scheduling: the worker thread and every upstream replica keep running.
SendOf(s, r) == \E n \in 1..3 : Send(s, r, n)
NextBinLive ==
    \/ New
    \/ Setup
    \/ \E s \in Sides, r \in 1..MaxInstances : SendOf(s, r)
    \/ Recv
\* Every stream is finite, so it is enough that some thread that can make a
\* step eventually makes one.
FairBin == WF_vars(NextBinLive)
SpecBinLive == InitBin /\ [][NextBinLive]_vars /\ FairBin

\* A worker that calls recv() or recv_timeout() in any order, under the same
\* fair scheduling.
FairBinTimeout == WF_vars(NextBin)
SpecBinTimeout == InitBin /\ [][NextBin]_vars /\ FairBinTimeout

\* Upstream replicas held to the stream grammar only: a replica sends its
\* next n elements as one batch wherever they fall in its stream (a batch
\* of Fixed(n) may hold a FlushAndRestart and what follows it), and the
\* replicas of a side run independently of each other.
SendFree(s, r, n) ==
    /\ pc = "run"
    /\ r <= CfgInstances(s)
    /\ LET st == StreamOf(s, r)
           a == sent[s][r] + 1
           b == sent[s][r] + n
       IN  /\ b <= Len(st)
           /\ Len(chan[s]) < CHANNEL_CAPACITY /\ Len(chan[s]) < MaxInFlight
           /\ chan' = [chan EXCEPT ![s] = Append(@, SubSeq(st, a, b))]
    /\ sent' = [sent EXCEPT ![s][r] = @ + n]
    /\ UNCHANGED <<cfg, left, right, first_message, out, seq, ret, iter, hist, pc, fbVars, netVars, cwVars, csvVars, wrVars, srcVars>>

NextBinFree ==
    \/ New
    \/ Setup
    \/ \E s \in Sides, r \in 1..MaxInstances, n \in 1..3 : SendFree(s, r, n)
    \/ Recv
    \/ RecvTimeout

\* Of the two sides it is the right one that has the more replicas.
InitBinFree == InitBin /\ cfg.li <= cfg.ri
SpecBinFree == InitBinFree /\ [][NextBinFree]_vars

(***************************************************************************)
(* process_side applied to arbitrary batches of one side, one after the    *)
(* other.  A counter decremented at 0 panics or wraps, as in select.       *)
(***************************************************************************)
MaxWrapElems == 3   \* elements processed in all (an empty batch counts as one)

WrAlphabet ==
    { Item(1), Timestamped(2, 5), Watermark(3), FlushBatch, FlushAndRestart, Terminate }
RECURSIVE WrBatches(_)
WrBatches(n) ==
    IF n = 0 THEN { <<>> }
    ELSE LET shorter == WrBatches(n - 1)
         IN  shorter \cup { Append(b, e) : b \in { t \in shorter : Len(t) = n - 1 },
                                           e \in WrAlphabet }
WrCost(batch) == IF batch = <<>> THEN 1 ELSE Len(batch)
WrSpent == SumSeq([i \in 1..Len(wr.log) |-> WrCost(wr.log[i].in)])

InitWrap ==
    /\ \E cached \in BOOLEAN, n \in 1..MaxInstances, tag \in Sides :
          wr = [ side |-> SideSetup(SideNew(cached), n), tag |-> tag,
                 log |-> <<>>, panicked |-> FALSE ]
    /\ FbIdle /\ BinIdle /\ NetIdle /\ CwIdle /\ CsvIdle /\ SrcIdle

\* process_side(side, message, wrap, end) returns the wrapped batch
WrProcess ==
    /\ ~wr.panicked
    /\ \E b \in WrBatches(MaxWrapElems - WrSpent) :
          /\ WrSpent + WrCost(b) <= MaxWrapElems
          /\ LET pr == ProcessSide(wr.side, b, wr.tag)
             IN  wr' = [wr EXCEPT !.side = pr.side,
                                  !.log = Append(@, [in |-> b, out |-> pr.msg])]
    /\ UNCHANGED <<fbVars, binVars, netVars, cwVars, csvVars, srcVars>>

\* the same call in a build with overflow checks, a counter being at 0
WrPanic ==
    /\ ~wr.panicked
    /\ \E b \in WrBatches(MaxWrapElems - WrSpent) :
          /\ WrSpent + WrCost(b) <= MaxWrapElems
          /\ ProcessSide(wr.side, b, wr.tag).under
    /\ wr' = [wr EXCEPT !.panicked = TRUE]
    /\ UNCHANGED <<fbVars, binVars, netVars, cwVars, csvVars, srcVars>>

NextWrap == WrProcess \/ WrPanic
SpecWrap == InitWrap /\ [][NextWrap]_vars

(***************************************************************************)
(* FoldBatch: reference description of a run, from the elements pulled     *)
(***************************************************************************)
IsEndMarker(e) == e.k \in {"FlushAndRestart", "Terminate"}
IsData(e) == e.k \in {"Item", "Timestamped"}
IsWatermark(e) == e.k = "Watermark"

\* The elements pulled from upstream so far.
FbConsumed ==
    [i \in 1..fbPulled |-> IF i <= Len(fbIn) THEN fbIn[i] ELSE Terminate]

FirstEnd(c) ==
    IF \E i \in 1..Len(c) : IsEndMarker(c[i])
    THEN CHOOSE i \in 1..Len(c) :
            IsEndMarker(c[i]) /\ \A j \in 1..(i - 1) : ~IsEndMarker(c[j])
    ELSE 0

\* A sequence of elements cut after each end marker.
RECURSIVE PassesOf(_)
PassesOf(c) ==
    IF c = <<>> THEN <<>>
    ELSE LET i == FirstEnd(c)
         IN  IF i = 0 THEN <<c>>
             ELSE <<SubSeq(c, 1, i)>> \o PassesOf(SubSeq(c, i + 1, Len(c)))

Payloads(p) ==
    LET d == SelectSeq(p, IsData) IN [i \in 1..Len(d) |-> d[i].v]

MaxOf(S) == CHOOSE m \in S : \A x \in S : x <= m
TimestampsOf(p) == { p[i].ts : i \in { j \in 1..Len(p) : p[j].k = "Timestamped" } }
WatermarksOf(p) == { p[i].ts : i \in { j \in 1..Len(p) : p[j].k = "Watermark" } }

\* init folded with the consecutive chunks of at most b elements of xs.
RECURSIVE FoldChunks(_, _, _)
FoldChunks(acc, xs, b) ==
    IF xs = <<>> THEN acc
    ELSE LET n == IF Len(xs) < b THEN Len(xs) ELSE b
         IN  FoldChunks(FoldFn(acc, SubSeq(xs, 1, n)),
                        SubSeq(xs, n + 1, Len(xs)), b)

\* What a pass (its elements, end marker last) makes next() return.
PassAggregate(p, b) ==
    IF Payloads(p) = <<>> THEN <<>>
    ELSE IF TimestampsOf(p) # {}
    THEN << Timestamped(FoldChunks(<<>>, Payloads(p), b), MaxOf(TimestampsOf(p))) >>
    ELSE << Item(FoldChunks(<<>>, Payloads(p), b)) >>
PassWatermark(p) ==
    IF WatermarksOf(p) = {} THEN <<>> ELSE << Watermark(MaxOf(WatermarksOf(p))) >>
PassOutput(p, b) == PassAggregate(p, b) \o PassWatermark(p) \o << p[Len(p)] >>

RECURSIVE RunOutput(_, _)
RunOutput(ps, b) ==
    IF ps = <<>> THEN <<>> ELSE PassOutput(Head(ps), b) \o RunOutput(Tail(ps), b)

IsPrefix(s, t) == Len(s) <= Len(t) /\ s = SubSeq(t, 1, Len(s))

FirstTerminate(o) ==
    IF \E i \in 1..Len(o) : o[i].k = "Terminate"
    THEN CHOOSE i \in 1..Len(o) :
            o[i].k = "Terminate" /\ \A j \in 1..(i - 1) : o[j].k # "Terminate"
    ELSE 0
\* The returned values up to and including the first Terminate.
UpToTerminate(o) == IF FirstTerminate(o) = 0 THEN o ELSE SubSeq(o, 1, FirstTerminate(o))

FbAggregates == SelectSeq(fbOut, IsData)
FbDataPasses ==
    LET HasData(p) == Payloads(p) # <<>> IN SelectSeq(PassesOf(FbConsumed), HasData)

(***************************************************************************)
(* C7.  End-of-iteration aggregation: every aggregate returned by next()   *)
(* is init folded with the consecutive chunks of batch_size elements (the  *)
(* last one shorter) of the data of the pass it closes, in arrival order,  *)
(* one aggregate per pass that holds data; with the sum closure the queue  *)
(* 0..10 and batch_size 4 give Item(45) then Terminate.                    *)
(***************************************************************************)
C7_Aggregation ==
    /\ Len(FbAggregates) = Len(FbDataPasses)
    /\ \A i \in 1..Len(FbAggregates) :
          FbAggregates[i].v = FoldChunks(<<>>, Payloads(FbDataPasses[i]), fb.batch_size)
    /\ (fbIn = TestWithoutTimestamps /\ Len(fbOut) >= 2) =>
          /\ fbOut[1].k = "Item" /\ SumFold(0, fbOut[1].v) = 45
          /\ fbOut[2] = Terminate

\* A pass of three elements folded with batch_size 2: one full chunk and the
\* remaining element; and the test run has returned its two values.
C7_Witness ==
    /\ fb.batch_size = 2 /\ fbIn = <<Item(1), Item(2), Item(1), FlushAndRestart>>
    /\ fbOut = << Item(<< <<1, 2>>, <<1>> >>) >>


(***************************************************************************)
(* C8.  FoldBatch resets its state at every FlushAndRestart: for k passes  *)
(* that each hold data and end with FlushAndRestart, next() returns for    *)
(* each pass its aggregate, computed from a fresh init and the data of     *)
(* that pass only with batch boundaries restarting, then FlushAndRestart,  *)
(* and Terminate at the end; when FlushAndRestart is returned the fields   *)
(* are those of a new operator.  The test queue 0,1,2,F,3,4,5,F gives      *)
(* Item(3), F, Item(12), F, Terminate.                                     *)
(***************************************************************************)
FbNotWatermark(e) == ~IsWatermark(e)
FbPassesHoldData(q) ==
    /\ q # <<>> /\ q[Len(q)] = FlushAndRestart
    /\ \A i \in 1..Len(PassesOf(q)) : Payloads(PassesOf(q)[i]) # <<>>
RECURSIVE FbAggThenRestart(_, _)
FbAggThenRestart(ps, b) ==
    IF ps = <<>> THEN << Terminate >>
    ELSE PassAggregate(Head(ps), b) \o << FlushAndRestart >>
            \o FbAggThenRestart(Tail(ps), b)
C8_RestartResets ==
    /\ (fbOut # <<>> /\ fbOut[Len(fbOut)] = FlushAndRestart) =>
            fb = FoldBatchNew(fb.batch_size)
    /\ FbPassesHoldData(fbIn) =>
          LET o == UpToTerminate(SelectSeq(fbOut, FbNotWatermark))
              e == FbAggThenRestart(PassesOf(fbIn), fb.batch_size)
          IN  /\ IsPrefix(o, e)
              /\ FirstTerminate(fbOut) # 0 => o = e
    /\ (fbIn = TestIterEnd /\ Len(fbOut) >= 5) =>
          /\ fbOut[1].k = "Item" /\ SumFold(0, fbOut[1].v) = 3
          /\ fbOut[2] = FlushAndRestart
          /\ fbOut[3].k = "Item" /\ SumFold(0, fbOut[3].v) = 12
          /\ fbOut[4] = FlushAndRestart
          /\ fbOut[5] = Terminate

\* Two passes of one element each with batch_size 2: the element left in the
\* store by the first pass is not folded with the element of the second.
C8_Witness ==
    /\ fb.batch_size = 2
    /\ fbIn = << Item(1), FlushAndRestart, Item(2), FlushAndRestart >>
    /\ fbOut = << Item(<< <<1>> >>), FlushAndRestart,
                  Item(<< <<2>> >>), FlushAndRestart, Terminate >>

(***************************************************************************)
(* C9.  Emission order at the end of a pass: the values returned up to the *)
(* first Terminate are, pass by pass of the elements pulled, the aggregate *)
(* (if the pass holds data), one Watermark with the largest watermark of   *)
(* the pass (if it holds one), then its end marker, each once; a value is  *)
(* returned only for a pass whose end marker has been pulled.              *)
(***************************************************************************)
C9_EmissionOrder ==
    LET ps == PassesOf(FbConsumed)
        e == RunOutput(ps, fb.batch_size)
        o == UpToTerminate(fbOut)
    IN  /\ IsPrefix(o, e)
        /\ fbOut # <<>> =>
              /\ fbPulled > 0 /\ IsEndMarker(FbConsumed[fbPulled])
              /\ Len(o) > Len(RunOutput(SubSeq(ps, 1, Len(ps) - 1), fb.batch_size))
        /\ (fbOut # <<>> /\ IsEndMarker(fbOut[Len(fbOut)])) => o = e

\* A pass with data and two watermarks, fully emitted.
C9_Witness ==
    /\ fbIn = << Watermark(2), Item(1), Watermark(1), FlushAndRestart >>
    /\ fbOut = << Item(<< <<1>> >>), Watermark(2), FlushAndRestart >>

(***************************************************************************)
(* C10.  Control-sequence well-formedness is preserved: when the upstream  *)
(* sequence matches ((Item|Timestamped|Watermark|FlushBatch)* F)+ T, what  *)
(* next() returns up to the first Terminate matches it too: Terminate      *)
(* comes last and directly after a FlushAndRestart, never after data.      *)
(***************************************************************************)
FbWellFormed(q) == q # <<>> /\ q[Len(q)] = FlushAndRestart
C10_Grammar ==
    FbWellFormed(fbIn) =>
        LET o == UpToTerminate(fbOut)
        IN  \A i \in 1..Len(o) :
              /\ o[i].k \in {"Item", "Timestamped", "Watermark", "FlushBatch",
                            "FlushAndRestart", "Terminate"}
              /\ o[i].k = "Terminate" =>
                    i = Len(o) /\ i > 1 /\ o[i - 1].k = "FlushAndRestart"

\* A well-formed queue of two passes whose run ended with Terminate.
C10_Witness ==
    /\ fbIn = << Item(1), FlushAndRestart, Watermark(1), FlushAndRestart >>
    /\ Len(fbOut) = 5 /\ fbOut[5] = Terminate /\ fbOut[4] = FlushAndRestart


(***************************************************************************)
(* NetworkReceiver (src/src/network/receiver.rs) over a bounded channel.   *)
(* The channel (crate::channel) is described by its contract: FIFO,        *)
(* bounded, send blocks when full, recv reports the disconnection once the *)
(* buffer is empty and no sender is left.                                  *)
(***************************************************************************)
MaxMsgs == 11         \* messages sent on a channel
MaxHandles == 2       \* senders of a channel alive at once outside the receiver
MaxSenderCalls == 3   \* calls of sender() on a receiver

Recvs == {"a", "b"}

\* NetworkReceiver::new with capacity CHANNEL_CAPACITY + 1.
NetNewLarger == [local_sender |-> Some("sender"), capacity |-> CHANNEL_CAPACITY + 1]

\* NetworkReceiver::new
NetNew == [local_sender |-> Some("sender"), capacity |-> CHANNEL_CAPACITY]

\* sender() cloning the local sender instead of taking it.
SenderResultClone(r) ==
    [ rx |-> r, some |-> IsSome(r.local_sender) ]

\* NetworkReceiver::sender: self.local_sender.take().map(..)
SenderResult(r) ==
    [ rx |-> [r EXCEPT !.local_sender = None], some |-> IsSome(r.local_sender) ]

\* The senders of the channel of receiver r that are alive.
Senders(r) == handles[r] + (IF IsSome(rx[r].local_sender) THEN 1 ELSE 0)

\* BoundedChannelSender::send completes when the channel has a free slot.
ChanHasSlot(r) == Len(buf[r]) < rx[r].capacity

\* ChanRecv reporting the disconnection as soon as no sender is left.
ChanRecvEager(b, senders) ==
    IF senders = 0 THEN [kind |-> "disconnected", msg |-> 0, rest |-> b]
    ELSE IF b # <<>> THEN [kind |-> "ok", msg |-> Head(b), rest |-> Tail(b)]
    ELSE [kind |-> "empty", msg |-> 0, rest |-> b]

\* BoundedChannelReceiver::recv / recv_timeout on buffer b.
ChanRecv(b, senders) ==
    IF b # <<>> THEN [kind |-> "ok", msg |-> Head(b), rest |-> Tail(b)]
    ELSE IF senders = 0 THEN [kind |-> "disconnected", msg |-> 0, rest |-> b]
    ELSE [kind |-> "empty", msg |-> 0, rest |-> b]

NetSender(r) ==
    /\ Len(senderLog[r]) < MaxSenderCalls
    /\ LET res == SenderResult(rx[r])
       IN  /\ rx' = [rx EXCEPT ![r] = res.rx]
           /\ senderLog' = [senderLog EXCEPT ![r] = Append(@, IF res.some THEN "Some" ELSE "None")]
           /\ handles' = [handles EXCEPT ![r] = IF res.some THEN @ + 1 ELSE @]
    /\ UNCHANGED <<buf, pending, nstarted, delivered, netRet, fbVars, binVars, cwVars, csvVars, wrVars, srcVars>>

\* NetworkSender::clone / drop
CloneSender(r) ==
    /\ handles[r] >= 1 /\ handles[r] < MaxHandles
    /\ handles' = [handles EXCEPT ![r] = @ + 1]
    /\ UNCHANGED <<rx, buf, pending, nstarted, delivered, senderLog, netRet,
                   fbVars, binVars, cwVars, csvVars, wrVars, srcVars>>
DropSender(r) ==
    /\ handles[r] > (IF IsSome(pending[r]) THEN 1 ELSE 0)
    /\ handles' = [handles EXCEPT ![r] = @ - 1]
    /\ UNCHANGED <<rx, buf, pending, nstarted, delivered, senderLog, netRet,
                   fbVars, binVars, cwVars, csvVars, wrVars, srcVars>>

\* send(msg): the call starts, and completes once the channel has a slot.
SendStart(r) ==
    /\ handles[r] >= 1 /\ pending[r] = None /\ nstarted[r] < MaxMsgs
    /\ pending' = [pending EXCEPT ![r] = Some(nstarted[r] + 1)]
    /\ nstarted' = [nstarted EXCEPT ![r] = @ + 1]
    /\ UNCHANGED <<rx, buf, handles, delivered, senderLog, netRet,
                   fbVars, binVars, cwVars, csvVars, wrVars, srcVars>>
SendDone(r) ==
    /\ IsSome(pending[r]) /\ ChanHasSlot(r)
    /\ buf' = [buf EXCEPT ![r] = Append(@, Unwrap(pending[r]))]
    /\ pending' = [pending EXCEPT ![r] = None]
    /\ UNCHANGED <<rx, handles, nstarted, delivered, senderLog, netRet,
                   fbVars, binVars, cwVars, csvVars, wrVars, srcVars>>

\* NetworkReceiver::recv (timeout FALSE: blocks while the channel is empty
\* and has senders) and NetworkReceiver::recv_timeout (timeout TRUE).
NetRecv(r, timeout) ==
    LET res == ChanRecv(buf[r], Senders(r))
    IN  /\ res.kind = "empty" => timeout
        /\ buf' = [buf EXCEPT ![r] = res.rest]
        /\ delivered' = [delivered EXCEPT ![r] =
                            IF res.kind = "ok" THEN Append(@, res.msg) ELSE @]
        /\ netRet' = [ op |-> IF timeout THEN "recv_timeout" ELSE "recv", src |-> r,
                       kind |-> IF res.kind = "empty" THEN "timeout" ELSE res.kind,
                       msg |-> res.msg,
                       preLen |-> Len(buf[r]), preSenders |-> Senders(r) ]
        /\ UNCHANGED <<rx, handles, pending, nstarted, senderLog,
                       fbVars, binVars, cwVars, csvVars, wrVars, srcVars>>

InitNet ==
    /\ rx = [r \in Recvs |-> NetNew]
    /\ buf = [r \in Recvs |-> <<>>]
    /\ handles = [r \in Recvs |-> 0]
    /\ pending = [r \in Recvs |-> None]
    /\ nstarted = [r \in Recvs |-> 0]
    /\ delivered = [r \in Recvs |-> <<>>]
    /\ senderLog = [r \in Recvs |-> <<>>]
    /\ netRet = [ op |-> "none", src |-> "-", kind |-> "none", msg |-> 0,
                  preLen |-> 0, preSenders |-> 0 ]
    /\ FbIdle /\ BinIdle /\ CwIdle /\ CsvIdle /\ WrIdle /\ SrcIdle

\* One receiver and the senders of its channel.
NextNet ==
    \/ NetSender("a")
    \/ CloneSender("a")
    \/ DropSender("a")
    \/ SendStart("a")
    \/ SendDone("a")
    \/ NetRecv("a", FALSE)
    \/ NetRecv("a", TRUE)

SpecNet == InitNet /\ [][NextNet]_vars

(***************************************************************************)
(* NetworkReceiver::select / select_any over two receivers whose senders   *)
(* keep sending.  The choice among the ready receivers is made by the      *)
(* channel (crate::channel), described by its contract: any ready receiver *)
(* may be returned, and the choice is eventually fair.                     *)
(***************************************************************************)
\* A tie-break that prefers receiver a whenever it is ready.
SelectReadyBiased(r) == buf[r] # <<>> /\ (r = "b" => buf["a"] = <<>>)

\* The receivers select may return: those with a message ready.
SelectReady(r) == buf[r] # <<>>

\* NetworkReceiver::select(a, b) / select_any([a, b]) returning from r.
SelectTake(r) ==
    /\ SelectReady(r)
    /\ buf' = [buf EXCEPT ![r] = Tail(@)]
    /\ netRet' = [ op |-> "select", src |-> r, kind |-> "ok", msg |-> Head(buf[r]),
                   preLen |-> Len(buf[r]), preSenders |-> Senders(r) ]
    /\ UNCHANGED <<rx, handles, pending, nstarted, delivered, senderLog,
                   fbVars, binVars, cwVars, csvVars, wrVars, srcVars>>

\* A sender of receiver r completes a send (the run is unbounded: the
\* messages are not numbered).
SelSend(r) ==
    /\ handles[r] >= 1 /\ ChanHasSlot(r)
    /\ buf' = [buf EXCEPT ![r] = Append(@, 0)]
    /\ UNCHANGED <<rx, handles, pending, nstarted, delivered, senderLog, netRet,
                   fbVars, binVars, cwVars, csvVars, wrVars, srcVars>>

\* Two receivers whose sender has been taken.
InitSel ==
    /\ rx = [r \in Recvs |-> SenderResult(NetNew).rx]
    /\ buf = [r \in Recvs |-> <<>>]
    /\ handles = [r \in Recvs |-> 1]
    /\ pending = [r \in Recvs |-> None]
    /\ nstarted = [r \in Recvs |-> 0]
    /\ delivered = [r \in Recvs |-> <<>>]
    /\ senderLog = [r \in Recvs |-> << "Some" >>]
    /\ netRet = [ op |-> "none", src |-> "-", kind |-> "none", msg |-> 0,
                  preLen |-> 0, preSenders |-> 0 ]
    /\ FbIdle /\ BinIdle /\ CwIdle /\ CsvIdle /\ WrIdle /\ SrcIdle

NextSel == \E r \in Recvs : SelSend(r) \/ SelectTake(r)

\* The worker keeps calling select, and the tie-break is eventually fair: a
\* receiver that stays ready is eventually the one returned.
FairSel == \A r \in Recvs : WF_vars(SelectTake(r))
SpecSel == InitSel /\ [][NextSel]_vars /\ FairSel

(***************************************************************************)
(* ContentWindowManager (src/src/operator/window/descr/content_defined.rs) *)
(* The accumulator is the one of the unit test: a Vec the elements are     *)
(* pushed to, whose output is the Vec.                                     *)
(***************************************************************************)
MaxGap == 2      \* largest gap of a window (time units)
MaxNow == 4      \* largest value of the clock
MaxCalls == 4    \* calls of process

\* WindowAccumulator of the test: Fold::new(Vec::new(), |v, el| v.push(el))
AccProcess(acc, x) == Append(acc, x)
AccOutput(acc) == acc
WindowResultItem(o) == [item |-> o]

\* Slot::new
SlotNew(acc, ts) == [acc |-> acc, last |-> ts]

\* ContentDefinedWindow::build
CwBuild(accumulator, gap) == [init |-> accumulator, gap |-> gap, w |-> None]

\* Variants of process: "ge" closes the window when the gap is reached,
\* "keep" leaves the window in place at the end of the stream, "touch" lets
\* every element refresh last, "stale" leaves last at the opening of the window.
CwVariant(m, el, ts, v) ==
    LET expired == /\ IsSome(m.w)
                   /\ IF v = "ge" THEN ts - Unwrap(m.w).last >= m.gap
                      ELSE ts - Unwrap(m.w).last > m.gap
        closed == IF expired THEN Some(WindowResultItem(AccOutput(Unwrap(m.w).acc)))
               ELSE None
        w1 == IF expired THEN None ELSE m.w
    IN  IF el.k \in {"Item", "Timestamped"}
        THEN LET slot == IF IsSome(w1) THEN Unwrap(w1) ELSE SlotNew(m.init, ts)
             IN  [ m |-> [m EXCEPT !.w = Some([acc |-> AccProcess(slot.acc, el.v),
                                               last |-> IF v = "stale" THEN slot.last ELSE ts])],
                   ret |-> closed ]
        ELSE IF el.k \in {"Terminate", "FlushAndRestart"}
        THEN [ m |-> [m EXCEPT !.w = IF v = "keep" THEN w1 ELSE None],
               ret |-> IF IsSome(closed) THEN closed
                       ELSE IF IsSome(w1)
                       THEN Some(WindowResultItem(AccOutput(Unwrap(w1).acc)))
                       ELSE None ]
        ELSE [ m |-> [m EXCEPT !.w = IF v = "touch" /\ IsSome(w1)
                                     THEN Some([Unwrap(w1) EXCEPT !.last = ts])
                                     ELSE w1],
               ret |-> closed ]
CwProcessGe(m, el, ts) == CwVariant(m, el, ts, "ge")
CwProcessKeep(m, el, ts) == CwVariant(m, el, ts, "keep")
CwProcessTouch(m, el, ts) == CwVariant(m, el, ts, "touch")
CwProcessStale(m, el, ts) == CwVariant(m, el, ts, "stale")

\* ContentWindowManager::process, ts being the value of Instant::now()
CwProcess(m, el, ts) ==
    LET expired == IsSome(m.w) /\ ts - Unwrap(m.w).last > m.gap
        \* let ret = match &self.w { Some(slot) if .. => .. take() .., _ => None }
        closed == IF expired THEN Some(WindowResultItem(AccOutput(Unwrap(m.w).acc)))
               ELSE None
        w1 == IF expired THEN None ELSE m.w
    IN  IF el.k \in {"Item", "Timestamped"}
        THEN LET slot == IF IsSome(w1) THEN Unwrap(w1) ELSE SlotNew(m.init, ts)
             IN  [ m |-> [m EXCEPT !.w = Some([acc |-> AccProcess(slot.acc, el.v),
                                               last |-> ts])],
                   ret |-> closed ]
        ELSE IF el.k \in {"Terminate", "FlushAndRestart"}
        THEN \* ret.or_else(|| self.w.take().map(..))
             [ m |-> [m EXCEPT !.w = None],
               ret |-> IF IsSome(closed) THEN closed
                       ELSE IF IsSome(w1)
                       THEN Some(WindowResultItem(AccOutput(Unwrap(w1).acc)))
                       ELSE None ]
        ELSE [ m |-> [m EXCEPT !.w = w1], ret |-> closed ]

CwAlphabet ==
    { Item(1), Timestamped(2, 1), Watermark(1), FlushBatch, FlushAndRestart, Terminate }

InitCw ==
    /\ \E acc \in { <<>>, <<0>> }, gap \in 1..MaxGap : cw = CwBuild(acc, gap)
    /\ now = 0
    /\ cwCall = [n |-> 0, el |-> FlushBatch, ts |-> 0, pre |-> None, ret |-> None]
    /\ cwIn = <<>> /\ cwOut = <<>>
    /\ FbIdle /\ BinIdle /\ NetIdle /\ CsvIdle /\ WrIdle /\ SrcIdle

\* process(el) called when Instant::now() is ts; the caller (save_result! of
\* the test) collects what it returns.
CwCallProcess(el, ts) ==
    LET res == CwProcess(cw, el, ts)
        fresh == cwCall.el.k \in {"FlushAndRestart", "Terminate"}
        ins == IF fresh THEN <<>> ELSE cwIn
        outs == IF fresh THEN <<>> ELSE cwOut
    IN  /\ cw' = res.m
        /\ now' = ts
        /\ cwCall' = [n |-> cwCall.n + 1, el |-> el, ts |-> ts,
                      pre |-> cw.w, ret |-> res.ret]
        /\ cwIn' = IF el.k \in {"Item", "Timestamped"}
                   THEN Append(ins, [v |-> el.v, ts |-> ts]) ELSE ins
        /\ cwOut' = IF IsSome(res.ret) THEN Append(outs, Unwrap(res.ret).item) ELSE outs
        /\ UNCHANGED <<fbVars, binVars, netVars, csvVars, wrVars, srcVars>>

\* A call of process; the clock does not go back.
CwStep ==
    /\ cwCall.n < MaxCalls
    /\ \E el \in CwAlphabet, ts \in now..MaxNow : CwCallProcess(el, ts)

NextCw == CwStep
SpecCw == InitCw /\ [][NextCw]_vars

\* The run of the unit test: data elements numbered in arrival order, at
\* arbitrary times, then FlushAndRestart (after which the stream restarts).
MaxRun == 5      \* calls of process in a run of data elements and flushes

CwData ==
    /\ cwCall.n < MaxRun
    /\ LET i == IF cwCall.el.k = "FlushAndRestart" THEN 1 ELSE Len(cwIn) + 1
       IN  \E ts \in now..MaxNow :
              \/ CwCallProcess(Timestamped(i, i \div 10), ts)
              \/ CwCallProcess(Item(i), ts)

CwFlush ==
    /\ cwCall.n < MaxRun
    /\ cwCall.el.k # "FlushAndRestart"
    /\ \E ts \in now..MaxNow : CwCallProcess(FlushAndRestart, ts)

NextCwRun == CwData \/ CwFlush
SpecCwRun == InitCw /\ [][NextCwRun]_vars

(***************************************************************************)
(* RowCsvSource::setup (src/src/operator/source/csv_fast.rs)               *)
(* A file is a sequence of bytes: "nl" is the terminator byte, "q" the     *)
(* quote, "x" any other byte.  The byte at offset i is file[i + 1].        *)
(***************************************************************************)
MaxFile == 6         \* bytes in the file
MaxCsvReplicas == 3  \* replicas of the source

CsvBytes == {"x", "nl", "q"}

\* BufRead::read_until(last_byte_terminator, ..) with the reader at offset
\* pos: the number of bytes read, the terminator included; at the end of the
\* file it reads what is left.
ReadUntil(file, pos) ==
    LET hits == { i \in (pos + 1)..Len(file) : file[i] = "nl" }
    IN  IF hits = {} THEN Len(file) - pos
        ELSE (CHOOSE i \in hits : \A j \in hits : i <= j) - pos

\* Variants of the offsets of setup: "noend" does not align the end,
\* "even" gives the last replica a range of range_size like the others.
CsvRangeVariant(file, has_headers, instances, global_id, v) ==
    LET file_size == Len(file)
        header_size == IF has_headers THEN ReadUntil(file, 0) ELSE 0
        body_size == file_size - header_size
        range_size == body_size \div instances
        start0 == header_size + range_size * global_id
        end0 == IF global_id = instances - 1 /\ v # "even" THEN file_size
                ELSE start0 + range_size
        start1 == IF global_id # 0 THEN start0 + ReadUntil(file, start0) ELSE start0
        end1 == IF global_id # instances - 1 /\ v # "noend"
                THEN end0 + ReadUntil(file, end0) ELSE end0
    IN  [start |-> start1, end |-> end1, header_size |-> header_size,
         \* (end - start) as usize
         limit |-> IF end1 >= start1 THEN end1 - start1
                   ELSE UsizeMax - (start1 - end1) + 1]
CsvRangeNoEnd(file, has_headers, instances, global_id) ==
    CsvRangeVariant(file, has_headers, instances, global_id, "noend")
CsvRangeEven(file, has_headers, instances, global_id) ==
    CsvRangeVariant(file, has_headers, instances, global_id, "even")

\* RowCsvSource::setup: the offsets of the replica global_id of instances,
\* and the limit of its LimitedReader.
CsvRange(file, has_headers, instances, global_id) ==
    LET file_size == Len(file)
        \* Handle the header
        header_size == IF has_headers THEN ReadUntil(file, 0) ELSE 0
        \* Calculate start and end offset of this replica
        body_size == file_size - header_size
        range_size == body_size \div instances
        start0 == header_size + range_size * global_id
        end0 == IF global_id = instances - 1 THEN file_size ELSE start0 + range_size
        \* Align start byte: discard first line
        start1 == IF global_id # 0 THEN start0 + ReadUntil(file, start0) ELSE start0
        \* Align end byte: get to the end of the line
        end1 == IF global_id # instances - 1 THEN end0 + ReadUntil(file, end0) ELSE end0
    IN  [start |-> start1, end |-> end1, header_size |-> header_size,
         \* (end - start) as usize
         limit |-> IF end1 >= start1 THEN end1 - start1
                   ELSE UsizeMax - (start1 - end1) + 1]

RECURSIVE SeqsUpTo(_, _)
SeqsUpTo(S, n) ==
    IF n = 0 THEN { <<>> }
    ELSE LET shorter == SeqsUpTo(S, n - 1)
         IN  shorter \cup { Append(q, b) : q \in { t \in shorter : Len(t) = n - 1 }, b \in S }

InitCsv ==
    /\ csvFile \in SeqsUpTo(CsvBytes, MaxFile)
    /\ \E h \in BOOLEAN, n \in 1..MaxCsvReplicas :
          /\ csvOpts = [has_headers |-> h, instances |-> n]
          /\ csvReader = [g \in 0..(n - 1) |-> None]
    /\ FbIdle /\ BinIdle /\ NetIdle /\ CwIdle /\ WrIdle /\ SrcIdle

\* setup of the replica g (the replicas set up in any order)
CsvSetup(g) ==
    /\ csvReader[g] = None
    /\ csvReader' = [csvReader EXCEPT
                       ![g] = Some(CsvRange(csvFile, csvOpts.has_headers, csvOpts.instances, g))]
    /\ UNCHANGED <<csvFile, csvOpts, fbVars, binVars, netVars, cwVars, wrVars, srcVars>>

NextCsv == \E g \in DOMAIN csvReader : CsvSetup(g)
SpecCsv == InitCsv /\ [][NextCsv]_vars

(***************************************************************************)
(* RowCsvSource::next over the records of the chunk of one replica.  A     *)
(* record is the list of its fields; of a field only what the conversions  *)
(* look at is kept: empty, the text of an integer, any other text.         *)
(***************************************************************************)
MaxRecords == 3        \* records in the chunk
MaxFields == 2         \* fields of a record, columns of a schema
MaxCsvTerminates == 2  \* calls of next() modelled that return Terminate

CsvFields == {"empty", "int", "text"}
CsvColumns == {"Int32", "Float32", "String"}
CsvRecords == UNION { [1..n -> CsvFields] : n \in 1..MaxFields }
CsvSchemas == UNION { [1..n -> CsvColumns] : n \in 1..MaxFields }
\* filter_at_source: an expression that holds of the integers only, and one
\* that holds of nothing
CsvFilters == {"is_int", "never"}

NoirTypeOf(x) == [t |-> "NoirType", v |-> x]
NoirRow(xs) == [t |-> "Row", row |-> xs]

\* if field.is_empty() .. else if parse::<i32>() .. else if parse::<f32>() ..
FieldAny(f) == IF f = "int" THEN "Int32" ELSE "None"
\* the conversion of a field of the column c of a schema
FieldAs(f, c) ==
    IF f = "int" THEN (IF c = "Int32" THEN "Int32" ELSE "Float32") ELSE "None"

\* RowCsvSource::handle_record_without_schema (no projection)
HandleRecordWithoutSchema(rec) ==
    IF Len(rec) = 1 THEN Some(NoirTypeOf(FieldAny(rec[1])))
    ELSE Some(NoirRow([i \in 1..Len(rec) |-> FieldAny(rec[i])]))

\* RowCsvSource::handle_record_with_schema (no projection), for a record as
\* long as the schema
HandleRecordWithSchema(rec, cols) ==
    IF Len(rec) = 1
    THEN IF rec[1] = "empty" THEN Some(NoirTypeOf("None"))
         ELSE IF cols[1] \in {"Int32", "Float32"}
         \* field.parse().map(..).ok()
         THEN IF rec[1] = "int" THEN Some(NoirTypeOf(FieldAs(rec[1], cols[1])))
              ELSE None
         ELSE Some(NoirTypeOf("None"))
    ELSE IF \E i \in 1..Len(rec) : cols[i] \notin {"Int32", "Float32"}
    THEN Some(NoirTypeOf("None"))
    ELSE Some(NoirRow([i \in 1..Len(rec) |-> FieldAs(rec[i], cols[i])]))

\* filter.evaluate(&item)
FilterEvaluate(f, data) ==
    f = "is_int" /\ data.t = "NoirType" /\ data.v = "Int32"

\* csv_reader.read_record fails on a record whose number of fields differs
\* from that of the first record, flexible being disabled (the default).
ReadRecordErr(s) ==
    ~s.flexible /\ Len(s.records[s.read + 1]) # Len(s.records[1])

\* One call of next(): the fields after it and the value returned, or a
\* panic.  The loop goes on while the filter rejects the record.
RECURSIVE CsvNextResult(_)
CsvNextResult(s) ==
    IF s.terminated THEN [s |-> s, r |-> Terminate, panic |-> FALSE]
    ELSE IF s.read = Len(s.records)
    \* Ok(false)
    THEN [s |-> [s EXCEPT !.terminated = TRUE], r |-> FlushAndRestart, panic |-> FALSE]
    ELSE LET rec == s.records[s.read + 1]
             s1 == [s EXCEPT !.read = @ + 1]
         IN  IF ReadRecordErr(s)
                  \/ (IsSome(s.schema) /\ Len(rec) # Len(Unwrap(s.schema)))
             THEN [s |-> s1, r |-> Terminate, panic |-> TRUE]
             ELSE LET data == IF IsSome(s.schema)
                              THEN HandleRecordWithSchema(rec, Unwrap(s.schema))
                              ELSE HandleRecordWithoutSchema(rec)
                  IN  IF data = None
                      THEN [s |-> s1, r |-> FlushAndRestart, panic |-> FALSE]
                      ELSE IF s.filter = None \/ FilterEvaluate(Unwrap(s.filter), Unwrap(data))
                      THEN [s |-> s1, r |-> Item([n |-> s1.read, d |-> Unwrap(data)]),
                            panic |-> FALSE]
                      ELSE CsvNextResult(s1)

InitCsvNext ==
    /\ \E recs \in SeqsUpTo(CsvRecords, MaxRecords),
          schema \in {None} \cup { Some(c) : c \in CsvSchemas },
          filter \in {None} \cup { Some(f) : f \in CsvFilters },
          flexible \in BOOLEAN :
          csvSrc = [ records |-> recs, schema |-> schema, filter |-> filter,
                     flexible |-> flexible, read |-> 0, terminated |-> FALSE,
                     panicked |-> FALSE, returned |-> <<>> ]
    /\ FbIdle /\ BinIdle /\ NetIdle /\ CwIdle /\ CsvIdle /\ WrIdle

CsvTerminates ==
    Cardinality({ i \in 1..Len(csvSrc.returned) : csvSrc.returned[i].e = Terminate })

\* next() returns a value
CsvNext ==
    /\ ~csvSrc.panicked /\ CsvTerminates < MaxCsvTerminates
    /\ LET res == CsvNextResult([csvSrc EXCEPT !.returned = <<>>])
       IN  /\ ~res.panic
           /\ csvSrc' = [res.s EXCEPT !.returned =
                           Append(csvSrc.returned,
                                  [e |-> res.r, eof |-> res.s.terminated])]
    /\ UNCHANGED <<fbVars, binVars, netVars, cwVars, csvVars, wrVars>>

\* next() panics: read_record gave an error, or the record is not as long
\* as the schema
CsvNextPanic ==
    /\ ~csvSrc.panicked /\ CsvTerminates < MaxCsvTerminates
    /\ LET res == CsvNextResult([csvSrc EXCEPT !.returned = <<>>])
       IN  /\ res.panic
           /\ csvSrc' = [res.s EXCEPT !.returned = csvSrc.returned, !.panicked = TRUE]
    /\ UNCHANGED <<fbVars, binVars, netVars, cwVars, csvVars, wrVars>>

NextCsvNext == CsvNext \/ CsvNextPanic
SpecCsvNext == InitCsvNext /\ [][NextCsvNext]_vars

(***************************************************************************)
(* BinaryStartReceiver: vocabulary of the properties                       *)
(***************************************************************************)
Constructed == pc \in {"setup", "run", "panicked"}
Running == pc \in {"run", "panicked"}
NonCachedSide == Other(CachedSide)
SideOf(s) == IF s = "L" THEN left ELSE right
BothTerminated == IsTerminated(left) /\ IsTerminated(right)

ElemsOf(h) == [i \in 1..Len(h) |-> h[i].e]
InIter(h, i) == SelectSeq(h, LAMBDA x : x.it = i)
IsPayload(x) == x.e.k \in {"Item", "Timestamped"} /\ x.e.v.t \in {"Left", "Right"}
IsEndOf(x, s) == x.e.k = "Item" /\ x.e.v = EndOf(s)
CountOf(h, P(_)) == Len(SelectSeq(h, P))
Terminates(h) == CountOf(h, LAMBDA x : x.e.k = "Terminate")
Repeat(x, n) == [i \in 1..n |-> x]

(***************************************************************************)
(* C4.  At most one side is cached: new(.., true, true) fails its          *)
(* assertion and builds no receiver, so a constructed receiver never has   *)
(* left.cached and right.cached both true.                                 *)
(***************************************************************************)
C4_AtMostOneCached ==
    /\ Constructed => ~(left.cached /\ right.cached)
    /\ (cfg.lc /\ cfg.rc) => pc \in {"new", "rejected"}
    /\ pc = "rejected" => (cfg.lc /\ cfg.rc /\ left = <<>> /\ right = <<>>)

\* The construction with both flags set has been attempted.
C4_Witness == pc = "rejected" /\ cfg.lc /\ cfg.rc

(***************************************************************************)
(* C3.  After an iteration reset with a cached side no batch is returned   *)
(* from the cache until a batch of the non-cached side has been received   *)
(* in that iteration, whatever recv / recv_timeout calls are made.         *)
(***************************************************************************)
C3_NonCachedFirst ==
    (Running /\ ret.kind = "batch" /\ ret.src = "cache") => hist.liveNC

(***************************************************************************)
(* C5 (as stated).  Once both sides are terminated and a side is cached    *)
(* the receiver emits cached_side.instances Terminate elements and then    *)
(* nothing more: the Terminate elements emitted never exceed               *)
(* left.instances + right.instances.                                       *)
(***************************************************************************)
C5_StopsAfterTerminates ==
    Running =>
        Terminates(out["L"]) + Terminates(out["R"]) + Terminates(out["S"])
            <= left.instances + right.instances

(***************************************************************************)
(* C5 (amended).  The Terminate elements of the cached side are never      *)
(* forwarded; once both sides are terminated every call of select returns  *)
(* a batch of exactly cached_side.instances Terminate elements (select     *)
(* keeps no record of having done so: it is the caller that stops), and up *)
(* to and including the first such batch the Terminate elements emitted    *)
(* number left.instances + right.instances.                                *)
(***************************************************************************)
C5_SynthTerminates ==
    (Running /\ CachedSide \in Sides) =>
        LET c == CachedSide
            n == SideOf(c).instances
        IN  /\ Terminates(out[c]) = 0
            /\ ElemsOf(out["S"]) = Repeat(Terminate, hist.synth * n)
            /\ ret.src = "synth" => ret.msg = Repeat(Terminate, n)
            /\ hist.synth >= 1 =>
                  /\ BothTerminated
                  /\ Terminates(out[NonCachedSide]) = SideOf(NonCachedSide).instances
            /\ hist.synth = 1 =>
                  Terminates(out["L"]) + Terminates(out["R"]) + Terminates(out["S"])
                      = left.instances + right.instances
            /\ (BothTerminated /\ pc = "run" /\ hist.synth < MaxSynth) =>
                  ENABLED Recv

\* Two replicas on the cached side: the second call made after termination
\* has returned two more Terminate elements.
C5_Witness ==
    /\ pc = "run" /\ cfg.lc /\ cfg.li = 2 /\ hist.synth = 2
    /\ Len(out["S"]) = 4 /\ ret.src = "synth"


(***************************************************************************)
(* The test case of the cached binary merge: Left cached delivering 1, 2,  *)
(* Right delivering [10] FlushAndRestart [20] FlushAndRestart Terminate,   *)
(* one replica per side.                                                   *)
(***************************************************************************)
C1Config == cfg = [lc |-> TRUE, rc |-> FALSE, li |-> 1, ri |-> 1, passes |-> 2]
LSeq == << Item(BLeft(1)), Item(BLeft(2)), Item(LeftEnd), FlushAndRestart >>
RSeq(x) == << Item(BRight(x)), Item(RightEnd), FlushAndRestart >>
FromSide(h, s) == SelectSeq(h, LAMBDA x : x.side = s)
IsFAR(x) == x.e.k = "FlushAndRestart"

\* The elements a consumer that counts the FlushAndRestart of the two sides
\* sees: of the FlushAndRestart of one iteration only the last is kept.
RECURSIVE MergeFAR(_, _)
MergeFAR(h, j) ==
    IF j > Len(h) THEN <<>>
    ELSE LET dup == /\ IsFAR(h[j])
                    /\ \E j2 \in (j + 1)..Len(h) : IsFAR(h[j2]) /\ h[j2].it = h[j].it
         IN  (IF dup THEN <<>> ELSE << h[j].e >>) \o MergeFAR(h, j + 1)

(***************************************************************************)
(* C1 (as stated).  In the test case the element sequence emitted          *)
(* downstream is exactly Left(1), Left(2), LeftEnd, Right(10), RightEnd,   *)
(* FlushAndRestart, Left(1), Left(2), LeftEnd, Right(20), RightEnd,        *)
(* FlushAndRestart, then one Terminate per instance.  (The two             *)
(* FlushAndRestart of an iteration are read as the one synchronized        *)
(* FlushAndRestart of the statement.)                                      *)
(***************************************************************************)
C1_ExactSequence ==
    (C1Config /\ pc = "run" /\ hist.synth = 1) =>
        MergeFAR(seq, 1) =
            << Item(BLeft(1)), Item(BLeft(2)), Item(LeftEnd),
               Item(BRight(10)), Item(RightEnd), FlushAndRestart,
               Item(BLeft(1)), Item(BLeft(2)), Item(LeftEnd),
               Item(BRight(20)), Item(RightEnd), FlushAndRestart,
               Terminate, Terminate >>

(***************************************************************************)
(* C1 (amended).  In the test case, in each of the two iterations the      *)
(* elements of Left are Left(1), Left(2), LeftEnd, FlushAndRestart and     *)
(* those of Right are Right(x), RightEnd, FlushAndRestart, each side in    *)
(* this order but interleaved with the other side in any way; iteration 1  *)
(* is received live, in iteration 2 Left is replayed from the cache in one *)
(* piece and, unless a first receive of an iteration timed out, the first  *)
(* element is Right(20).  Then comes the Terminate of Right, preceded by   *)
(* one more replay of Left only if a first receive timed out, and then     *)
(* left.instances Terminate elements per call.                             *)
(***************************************************************************)
C1_Emission ==
    (C1Config /\ Running) =>
        LET I(i) == InIter(seq, i)
            L(h) == ElemsOf(FromSide(h, "L"))
            R(h) == ElemsOf(FromSide(h, "R"))
            Piece(h) == \A a, b \in 1..Len(h) :
                           (a < b /\ h[a].side = "L" /\ h[b].side = "L") =>
                               \A c \in a..b : h[c].side = "L"
        IN  /\ iter <= 3
            /\ \A j \in 1..(Len(seq) - 1) :
                  /\ seq[j].it <= seq[j + 1].it
                  /\ seq[j].side = "S" => seq[j + 1].side = "S"
            /\ ElemsOf(FromSide(seq, "S")) = Repeat(Terminate, hist.synth)
            /\ IsPrefix(L(I(1)), LSeq) /\ IsPrefix(R(I(1)), RSeq(10))
            /\ \A j \in 1..Len(I(1)) : I(1)[j].live
            /\ IsPrefix(L(I(2)), LSeq) /\ IsPrefix(R(I(2)), RSeq(20))
            /\ \A j \in 1..Len(I(2)) : I(2)[j].live <=> I(2)[j].side = "R"
            /\ Piece(I(2))
            /\ (I(2) # <<>> /\ ~hist.lostFirst) => I(2)[1].e = Item(BRight(20))
            /\ L(I(3)) \in {<<>>, LSeq} \/ (hist.synth = 0 /\ IsPrefix(L(I(3)), LSeq))
            /\ L(I(3)) # <<>> => hist.lostFirst
            /\ IsPrefix(R(I(3)), << Terminate >>)
            /\ hist.synth >= 1 =>
                  /\ L(I(1)) = LSeq /\ R(I(1)) = RSeq(10)
                  /\ L(I(2)) = LSeq /\ R(I(2)) = RSeq(20)
                  /\ R(I(3)) = << Terminate >>

\* The run is complete and iteration 2 began with the batch of Right, the
\* elements of Left following it.
C1_Witness ==
    /\ C1Config /\ pc = "run" /\ hist.synth = 1 /\ ~hist.lostFirst
    /\ ElemsOf(InIter(seq, 2)) = << Item(BRight(20)) >> \o LSeq
                                   \o << Item(RightEnd), FlushAndRestart >>

(***************************************************************************)
(* C2.  With one cached side and k passes of the non-cached side, every    *)
(* data element the cached side delivered in the first pass is emitted     *)
(* exactly k times: live in iteration 1, from the cache in each of the     *)
(* iterations 2..k, in the order it was first received, and never in a     *)
(* pass the non-cached side did not start.                                 *)
(***************************************************************************)
C2_ReplayedOncePerPass ==
    (Running /\ CachedSide \in Sides) =>
        LET c == CachedSide
            k == cfg.passes
            Data(h) == ElemsOf(SelectSeq(h, IsPayload))
            D == Data(SelectSeq(out[c], LAMBDA x : x.live))
            P(i) == InIter(out[c], i)
        IN  /\ \A i \in 1..iter :
                  /\ i > k => Data(P(i)) = <<>>
                  /\ IsPrefix(Data(P(i)), D)
                  /\ \A j \in 1..Len(P(i)) : P(i)[j].live <=> i = 1
            /\ BothTerminated => \A i \in 1..k : Data(P(i)) = D

(***************************************************************************)
(* C6 (as stated).  An end marker is emitted exactly when the              *)
(* missing_flush_and_restart of its side reaches 0, that is only after all *)
(* the replicas of the side have sent their FlushAndRestart for the        *)
(* current iteration.  (Checked in the iterations the non-cached side      *)
(* started, on every batch returned.)                                      *)
(***************************************************************************)
C6_MarkerOnlyAtZero ==
    (Running /\ ret.kind = "batch" /\ iter <= cfg.passes) =>
        \A s \in Sides :
            (\E j \in 1..Len(ret.msg) : ret.msg[j] = Item(EndOf(s))) =>
                /\ SideOf(s).missing_flush_and_restart = 0
                /\ hist.far[s] = SideOf(s).instances

(***************************************************************************)
(* C6 (amended).  In a batch received live from a side, the end marker of  *)
(* the side is emitted exactly when the FlushAndRestart of the batch takes *)
(* the side's missing_flush_and_restart to 0, that is when it is the       *)
(* FlushAndRestart of the last of the `instances` replicas in the current  *)
(* iteration, and it is placed immediately before that FlushAndRestart in  *)
(* the same batch.  The marker of a cached side in the later iterations is *)
(* the recorded one, replayed from the cache.  Every iteration that is     *)
(* completed holds exactly one LeftEnd and exactly one RightEnd, and no    *)
(* iteration holds more than one of either.                                *)
(***************************************************************************)
C6_EndMarkers ==
    Running =>
        /\ (ret.kind = "batch" /\ ret.src \in Sides) =>
              LET s == ret.src
                  m == ret.msg
                  ends == { j \in 1..Len(m) : m[j] = Item(EndOf(s)) }
                  fars == { j \in 1..Len(m) : m[j].k = "FlushAndRestart" }
              IN  /\ ends # {} <=> (fars # {} /\ hist.far[s] = SideOf(s).instances)
                  /\ ends # {} =>
                        /\ SideOf(s).missing_flush_and_restart = 0
                        /\ Cardinality(ends) = 1
                        /\ \A j \in ends : j + 1 \in fars /\ \A f \in fars : f <= j + 1
                  /\ \A j \in 1..Len(m) : m[j] # Item(EndOf(Other(s)))
        /\ ret.src = "synth" =>
              \A j \in 1..Len(ret.msg) : ret.msg[j].k = "Terminate"
        /\ \A s \in Sides :
              /\ \A j \in 1..Len(out[Other(s)]) : ~IsEndOf(out[Other(s)][j], s)
              /\ \A i \in 1..iter :
                    LET n == CountOf(InIter(out[s], i), LAMBDA x : IsEndOf(x, s))
                    IN  n <= 1 /\ (i < iter => n = 1)

\* Two replicas on Left: the batch with the second FlushAndRestart of the
\* iteration has been returned, with LeftEnd in front of it.
C6_Witness ==
    /\ pc = "run" /\ cfg.li = 2 /\ ret.kind = "batch" /\ ret.src = "L"
    /\ hist.far["L"] = 2
    /\ \E j \in 1..Len(ret.msg) : ret.msg[j] = Item(LeftEnd)


(***************************************************************************)
(* C11.  Terminate is final for FoldBatch: once next() has returned        *)
(* Terminate, a later call returns Terminate again, pulls nothing from     *)
(* upstream and leaves the fields as they are.                             *)
(***************************************************************************)
C11_TerminateFinal ==
    [][ (fbOut # <<>> /\ fbOut[Len(fbOut)] = Terminate) =>
            /\ fbOut' = Append(fbOut, Terminate)
            /\ fbPulled' = fbPulled
            /\ fb' = fb ]_vars

\* A run over a queue holding data in which next() has been called again
\* after it returned Terminate.
C11_Witness ==
    /\ Len(fbOut) >= 4
    /\ fbOut[Len(fbOut)] = Terminate /\ fbOut[Len(fbOut) - 1] = Terminate
    /\ \E i \in 1..Len(fbIn) : IsData(fbIn[i])
    /\ fbPulled = Len(fbIn) + 1

(***************************************************************************)
(* C13.  Watermark monotonicity of FoldBatch: over an upstream sequence    *)
(* matching the stream grammar no Watermark returned is smaller than one   *)
(* returned earlier, FlushAndRestart boundaries included.                  *)
(***************************************************************************)
C13_WatermarkMonotone ==
    FbWellFormed(fbIn) =>
        \A i, j \in 1..Len(fbOut) :
            (i < j /\ IsWatermark(fbOut[i]) /\ IsWatermark(fbOut[j])) =>
                fbOut[i].ts <= fbOut[j].ts


(***************************************************************************)
(* C12.  Termination of the merge: under fair scheduling, when every       *)
(* upstream replica of both sides sends a well-formed stream ending in     *)
(* Terminate, a worker that keeps calling recv receives every upstream     *)
(* batch and reaches the state where both sides are terminated; recv never *)
(* blocks forever, with or without a cached side.                          *)
(***************************************************************************)
AllReceived == \A s \in Sides : Closed(s) /\ chan[s] = <<>>
C14_SenderOnce ==
    \A r \in Recvs :
        /\ \A i \in 1..Len(senderLog[r]) : senderLog[r][i] = "Some" <=> i = 1
        /\ IsSome(rx[r].local_sender) <=> senderLog[r] = <<>>

\* sender() has been called three times on the receiver.
C14_Witness == senderLog["a"] = << "Some", "None", "None" >>

(***************************************************************************)
(* C15.  recv / recv_timeout report Disconnected once the last sender of   *)
(* the channel is closed, but only after every buffered message has been   *)
(* delivered in order: no buffered message is lost on close.               *)
(***************************************************************************)
C15_DisconnectAfterDrain ==
    netRet.op # "none" =>
        LET r == netRet.src
        IN  /\ netRet.kind = "disconnected" <=>
                  (netRet.preLen = 0 /\ netRet.preSenders = 0)
            /\ netRet.preLen > 0 => netRet.kind = "ok"
            /\ netRet.kind = "disconnected" =>
                  /\ buf[r] = <<>>
                  /\ delivered[r] = [i \in 1..nstarted[r] |-> i]

\* Messages were delivered and the receive that followed the close of the
\* last sender reported the disconnection.
C15_Witness ==
    /\ netRet.kind = "disconnected" /\ netRet.src = "a"
    /\ Len(delivered["a"]) >= 3

(***************************************************************************)
(* C16.  The channel of a NetworkReceiver never holds more than 10         *)
(* undelivered batches: a send on a channel that holds 10 does not         *)
(* complete until a receive frees a slot, and the batches are received in  *)
(* the order they were sent.                                               *)
(***************************************************************************)
C16_Bounded ==
    /\ [](\A r \in Recvs :
            /\ Len(buf[r]) <= 10
            /\ delivered[r] \o buf[r] \o pending[r] = [i \in 1..nstarted[r] |-> i])
    /\ [][\A r \in Recvs :
            (Len(buf[r]) = 10 /\ IsSome(pending[r])) => pending'[r] = pending[r]]_vars

\* The channel holds 10 batches and an eleventh send is waiting.
C16_Witness == Len(buf["a"]) = 10 /\ IsSome(pending["a"])


(***************************************************************************)
(* C17.  select / select_any is eventually fair: in an infinite run in     *)
(* which both receivers always have a message ready, each receiver is      *)
(* chosen infinitely often.                                                *)
(***************************************************************************)
BothReady == \A r \in Recvs : buf[r] # <<>>
CwCalled == cwCall.n > 0
CwWasOpen == CwCalled /\ IsSome(cwCall.pre)
CwExpired == CwWasOpen /\ cwCall.ts - Unwrap(cwCall.pre).last > cw.gap
CwIsData == cwCall.el.k \in {"Item", "Timestamped"}
CwIsEnd == cwCall.el.k \in {"FlushAndRestart", "Terminate"}
CwIsOther == cwCall.el.k \in {"Watermark", "FlushBatch"}

(***************************************************************************)
(* C18.  Gap closure: a call of process made while a window is open and    *)
(* now - last_seen > gap returns the output of that window, without the    *)
(* element of the call; a data element then becomes the first element of a *)
(* fresh window cloned from the prototype, with last_seen = now.  When     *)
(* now - last_seen <= gap (equality included) the window stays open and a  *)
(* data element is added to it.                                            *)
(***************************************************************************)
C18_GapClosure ==
    CwWasOpen =>
        LET slot == Unwrap(cwCall.pre)
        IN  /\ CwExpired =>
                  /\ cwCall.ret = Some(WindowResultItem(slot.acc))
                  /\ CwIsData =>
                        cw.w = Some([acc |-> Append(cw.init, cwCall.el.v),
                                     last |-> cwCall.ts])
            /\ (~CwExpired /\ CwIsData) =>
                  /\ cwCall.ret = None
                  /\ cw.w = Some([acc |-> Append(slot.acc, cwCall.el.v),
                                  last |-> cwCall.ts])
            /\ (~CwExpired /\ CwIsOther) => IsSome(cw.w)

\* A data element arrived after the gap: the window of two elements was
\* returned and the element opened a new one.
C18_Witness ==
    /\ CwExpired /\ CwIsData
    /\ Len(Unwrap(cwCall.pre).acc) >= 2
    /\ IsSome(cwCall.ret) /\ IsSome(cw.w)

(***************************************************************************)
(* C19.  End of stream: processing FlushAndRestart or Terminate finalizes  *)
(* the open window if there is one (its output is returned once, whether   *)
(* or not the gap had expired) and leaves no open window; with no window   *)
(* open it returns nothing.                                                *)
(***************************************************************************)
C19_EndOfStream ==
    (CwCalled /\ CwIsEnd) =>
        /\ cw.w = None
        /\ cwCall.ret = IF IsSome(cwCall.pre)
                        THEN Some(WindowResultItem(Unwrap(cwCall.pre).acc))
                        ELSE None

\* FlushAndRestart arrived after the gap of an open window had expired.
C19_Witness ==
    /\ CwExpired /\ cwCall.el = FlushAndRestart
    /\ IsSome(cwCall.ret) /\ cw.w = None

(***************************************************************************)
(* C20 (as stated).  Processing a Watermark or a FlushBatch changes no     *)
(* state, at any time the element arrives: the window is the same after    *)
(* the call as before it.                                                  *)
(***************************************************************************)
C20_NoStateChange ==
    (CwCalled /\ CwIsOther) => cw.w = cwCall.pre

(***************************************************************************)
(* C20 (amended).  Processing a Watermark or a FlushBatch adds nothing to  *)
(* the window and does not refresh last_seen: when no window is open or    *)
(* the gap of the open window has not expired, the state is the same after *)
(* the call as before it and nothing is returned; when the gap has expired *)
(* the call finalizes the window, returns its output and leaves no window  *)
(* open.                                                                   *)
(***************************************************************************)
C20_ControlPassThrough ==
    (CwCalled /\ CwIsOther) =>
        IF CwExpired
        THEN /\ cw.w = None
             /\ cwCall.ret = Some(WindowResultItem(Unwrap(cwCall.pre).acc))
        ELSE /\ cw.w = cwCall.pre
             /\ cwCall.ret = None

\* A Watermark arrived after the gap of the open window had expired.
C20_Witness ==
    /\ CwExpired /\ cwCall.el = Watermark(1)
    /\ IsSome(cwCall.ret) /\ cw.w = None


(***************************************************************************)
(* Content-defined windows: the windows of a run                           *)
(***************************************************************************)
\* The windows a run of data elements is expected to give: the first element
\* opens a window, and so does every element arriving more than gap after
\* the previous one; a window holds the prototype and then its elements.
RECURSIVE WindowsOf(_, _, _, _)
WindowsOf(ins, gap, init, n) ==
    IF n = 0 THEN <<>>
    ELSE LET p == WindowsOf(ins, gap, init, n - 1)
         IN  IF n = 1 \/ ins[n].ts - ins[n - 1].ts > gap
             THEN Append(p, Append(init, ins[n].v))
             ELSE [p EXCEPT ![Len(p)] = Append(@, ins[n].v)]
CwOpenWindow == IF IsSome(cw.w) THEN << AccOutput(Unwrap(cw.w).acc) >> ELSE <<>>

\* C21: in a run of data elements (numbered in arrival order, arriving at
\* arbitrary times) ended by FlushAndRestart, the windows returned are the
\* consecutive runs of the input cut exactly at the elements that arrive more
\* than gap after the previous one: at the FlushAndRestart every element is
\* in exactly one returned window, in arrival order, and no window is open;
\* before it, the windows returned and the open one are those runs so far.
C21_Partition ==
    (cw # <<>> /\ cwCall.n > 0) =>
        /\ cwOut \o CwOpenWindow = WindowsOf(cwIn, cw.gap, cw.init, Len(cwIn))
        /\ cwCall.el.k = "FlushAndRestart" =>
              /\ cw.w = None
              /\ cwOut = WindowsOf(cwIn, cw.gap, cw.init, Len(cwIn))
              /\ SelectSeq(Flatten(cwOut), LAMBDA x : x # 0) = [j \in 1..Len(cwIn) |-> j]

\* Three windows, one of them of two elements, returned by the end of a run.
C21_Witness ==
    /\ cw # <<>> /\ cwCall.n > 0 /\ cwCall.el.k = "FlushAndRestart"
    /\ cw.init = <<>>
    /\ Len(cwIn) = 4 /\ Len(cwOut) = 3
    /\ \E j \in 1..3 : Len(cwOut[j]) = 2


(***************************************************************************)
(* RowCsvSource: the chunks of the replicas                                *)
(***************************************************************************)
CsvHeaderSize == IF csvOpts.has_headers THEN ReadUntil(csvFile, 0) ELSE 0
CsvSetUp == { g \in DOMAIN csvReader : IsSome(csvReader[g]) }
CsvRangeOf(g) == Unwrap(csvReader[g])

\* The offsets of the body at which a line starts or the file ends.
LineBoundaries ==
    { CsvHeaderSize, Len(csvFile) }
      \cup { i \in CsvHeaderSize..Len(csvFile) : i > 0 /\ csvFile[i] = "nl" }

\* The offsets of the body at which a record starts or the file ends, for a
\* reader with quoting enabled (the default): a terminator between the
\* quotes of a quoted field is data.  st is the state of the parser:
\* "start" of a record, "field" (unquoted), "quoted", "dquote" (a quote seen
\* inside a quoted field).
RECURSIVE RecordScan(_, _, _)
RecordScan(file, i, st) ==
    IF i >= Len(file) THEN { Len(file) }
    ELSE LET b == file[i + 1]
         IN  IF b = "nl" /\ st # "quoted"
             THEN { i + 1 } \cup RecordScan(file, i + 1, "start")
             ELSE RecordScan(file, i + 1,
                    IF st = "start" THEN (IF b = "q" THEN "quoted" ELSE "field")
                    ELSE IF st = "quoted" THEN (IF b = "q" THEN "dquote" ELSE "quoted")
                    ELSE IF st = "dquote" THEN (IF b = "q" THEN "quoted" ELSE "field")
                    ELSE "field")
RecordBoundaries == { CsvHeaderSize } \cup RecordScan(csvFile, CsvHeaderSize, "start")

\* The units (lines or records) cut by a set of boundaries: [a, b) for
\* consecutive boundaries a < b.
UnitsOf(B) ==
    { u \in B \X B : u[1] < u[2] /\ ~ \E c \in B : u[1] < c /\ c < u[2] }

\* The ranges of the replicas set up so far are aligned to the boundaries B,
\* ordered, disjoint and contiguous; once every replica is set up they cover
\* the body and every unit lies in the range of exactly one replica.
CsvChunked(B) ==
    /\ \A g \in CsvSetUp :
          LET r == CsvRangeOf(g)
          IN  /\ r.start \in B /\ r.end \in B
              /\ r.start <= r.end
              /\ r.limit = r.end - r.start
              /\ g = 0 => r.start = CsvHeaderSize
              /\ g = csvOpts.instances - 1 => r.end = Len(csvFile)
    /\ \A g, k \in CsvSetUp :
          /\ g < k => CsvRangeOf(g).end <= CsvRangeOf(k).start
          /\ k = g + 1 => CsvRangeOf(g).end = CsvRangeOf(k).start
    /\ CsvSetUp = DOMAIN csvReader =>
          \A u \in UnitsOf(B) :
              Cardinality({ g \in CsvSetUp : /\ CsvRangeOf(g).start <= u[1]
                                              /\ u[2] <= CsvRangeOf(g).end }) = 1

\* C22 as stated: for any file content and any number of replicas, the byte
\* ranges computed in setup are aligned to record boundaries, satisfy
\* start <= end, do not overlap and cover the body, so that every record is
\* read by exactly one replica.
C22_RecordChunking == csvOpts # <<>> => CsvChunked(RecordBoundaries)

\* C22 amended: the same with lines in place of records: a range starts at
\* the end of the header or right after a terminator byte, and ends right
\* after a terminator byte or at the end of the file; every line of the body
\* lies in the range of exactly one replica.
C22_LineChunking == csvOpts # <<>> => CsvChunked(LineBoundaries)

\* Three replicas set up on a file with a header, whose body holds fewer
\* lines than there are replicas and no final terminator; one replica has an
\* empty range and another a non-empty one.
C22_Witness ==
    /\ csvOpts # <<>>
    /\ csvOpts.has_headers /\ csvOpts.instances = 3
    /\ CsvSetUp = DOMAIN csvReader
    /\ Len(csvFile) > 0 /\ csvFile[Len(csvFile)] # "nl"
    /\ Cardinality(UnitsOf(LineBoundaries)) = 2
    /\ \E g \in CsvSetUp : CsvRangeOf(g).limit = 0
    /\ \E g \in CsvSetUp : CsvRangeOf(g).limit > 1


(***************************************************************************)
(* BinaryStartReceiver: steps of select                                    *)
(***************************************************************************)
\* The step is a call of select that received the head of the channel of s.
TookFrom(s) == pc = "run" /\ pc' = "run" /\ Len(chan'[s]) < Len(chan[s])
\* The step is a call of select that reset the two sides.
DidReset == pc = "run" /\ pc' = "run" /\ iter' = iter + 1
NoTerminateIn(msg) == \A j \in 1..Len(msg) : msg[j].k # "Terminate"

(***************************************************************************)
(* C23.  Terminate is never placed in the cache: no batch stored in the    *)
(* cache of a side holds a Terminate, and a Terminate received from the    *)
(* cached side decrements its missing_terminate and is left out of the     *)
(* batch returned.                                                         *)
(***************************************************************************)
C23_NoTerminateInCache ==
    /\ [](Running => \A s \in Sides : \A i \in 1..Len(SideOf(s).cache) :
                          NoTerminateIn(SideOf(s).cache[i]))
    /\ [][ \A c \in Sides : (TookFrom(c) /\ SideOf(c).cached) =>
              LET received == Head(chan[c])
              IN  /\ SideOf(c)'.missing_terminate =
                        SideOf(c).missing_terminate - CountKind(received, "Terminate")
                  /\ ret'.kind = "batch" /\ ret'.src = c
                  /\ NoTerminateIn(ret'.msg)
                  /\ Len(ret'.msg) >= Len(received) - CountKind(received, "Terminate")
                  /\ SideOf(c)'.cache = Append(SideOf(c).cache, ret'.msg) ]_vars

\* The last of the two replicas of the cached side has sent its Terminate:
\* the batch returned, and recorded in the cache, is empty.
C23_Witness ==
    /\ pc = "run" /\ CachedSide \in Sides
    /\ SideOf(CachedSide).instances = 2
    /\ SideOf(CachedSide).missing_terminate = 0
    /\ ret.kind = "batch" /\ ret.src = CachedSide /\ ret.msg = <<>>
    /\ SideOf(CachedSide).cache[Len(SideOf(CachedSide).cache)] = <<>>

LiveFars(s) == CountOf(out[s], LAMBDA x : x.live /\ x.e.k = "FlushAndRestart")
EndMarkers(s) == CountOf(out[s], LAMBDA x : IsEndOf(x, s))
\* The iteration the batch just returned belongs to on the side it comes
\* from: for a batch received live, one more than the iterations the
\* replicas of the side had all closed before it; for a batch of the cache,
\* the iteration it is replayed in.
RetIteration ==
    IF ret.src \in Sides
    THEN (LiveFars(ret.src) - CountKind(ret.msg, "FlushAndRestart"))
             \div SideOf(ret.src).instances + 1
    ELSE iter

C26_IterationReset ==
    /\ [][ DidReset =>
              /\ IsEnded(left) /\ IsEnded(right)
              /\ CacheFinished(left) /\ CacheFinished(right)
              /\ first_message' = ~(left.cached \/ right.cached)
              /\ \A s \in Sides :
                    LET a == SideOf(s)
                        b == SideOf(s)'
                        got == IF TookFrom(s) THEN Head(chan[s]) ELSE <<>>
                    IN  /\ b.missing_flush_and_restart =
                              a.instances - CountKind(got, "FlushAndRestart")
                        /\ b.missing_terminate =
                              a.missing_terminate - CountKind(got, "Terminate")
                        /\ b.instances = a.instances /\ b.cached = a.cached
                        /\ b.cache = a.cache
                        /\ a.cached => (b.cache_full /\ b.cache_pointer = 0 /\ ~TookFrom(s))
                        /\ ~a.cached => (b.cache_full = a.cache_full
                                           /\ b.cache_pointer = a.cache_pointer) ]_vars
    /\ [][ (pc = "run" /\ pc' = "run" /\ iter' = iter) =>
              (first_message' = first_message
               /\ \A s \in Sides : SideOf(s)'.cache_full = SideOf(s).cache_full) ]_vars
    /\ [](pc = "run" =>
            LET at == SelectAfterReset
            IN  /\ at.reset => ( at.first_message
                                 /\ at.left.missing_flush_and_restart = left.instances
                                 /\ at.right.missing_flush_and_restart = right.instances )
                /\ (at.first_message /\ at.left.cached) => at.left.cache_full
                /\ (at.first_message /\ at.right.cached) => at.right.cache_full)

\* The call that reset the sides for the second iteration has returned the
\* first batch of the non-cached side: the cache of the other side is
\* marked full and rewound, first_message is cleared again.
C26_Witness ==
    /\ pc = "run" /\ iter = 2 /\ CachedSide \in Sides
    /\ ret.kind = "batch" /\ ret.src = NonCachedSide
    /\ SideOf(CachedSide).cache_full /\ SideOf(CachedSide).cache_pointer = 0
    /\ Len(SideOf(CachedSide).cache) >= 2
    /\ ~first_message


C28_CacheAfterFirst ==
    [][ ( pc = "run" /\ pc' = "run" /\ CachedSide \in Sides
          /\ iter' \in 2..cfg.passes /\ out' # out ) =>
          LET c == SideOf(CachedSide)
              cNext == SideOf(CachedSide)'
          IN  /\ (hist'.liveNC /\ (~hist.liveNC \/ iter' # iter)) =>
                    /\ ret'.src = NonCachedSide
                    /\ cNext.cache_pointer = 0
              /\ (hist.liveNC /\ iter' = iter /\ c.cache_pointer < Len(c.cache)) =>
                    /\ ret'.src = "cache"
                    /\ ret'.msg = c.cache[c.cache_pointer + 1]
                    /\ cNext.cache_pointer = c.cache_pointer + 1
              /\ TookFrom(NonCachedSide) =>
                    \/ ~hist.liveNC \/ iter' # iter
                    \/ c.cache_pointer >= Len(c.cache) ]_vars


\* A batch as it is returned live from side s: every element wrapped, the
\* Terminate of a cached side left out (the end marker is not counted).
WithoutEndMarker(msg, s) == SelectSeq(msg, LAMBDA e : e # Item(EndOf(s)))
WrappedBatch(batch, s) ==
    LET kept == SelectSeq(batch, LAMBDA e : ~(SideOf(s).cached /\ e.k = "Terminate"))
    IN  [j \in 1..Len(kept) |-> MapWrap(kept[j], s)]
\* The step is a call of select (a replica that sends changes `sent`).
SelectStep == pc = "run" /\ sent' = sent

C30_WrapPreserves ==
    wr # <<>> =>
        LET tag == wr.tag
            Payload(p) == IF tag = "L" THEN [t |-> "Left", x |-> p]
                          ELSE [t |-> "Right", x |-> p]
            Expected(e) ==
                IF e.k = "Item" THEN [k |-> "Item", v |-> Payload(e.v)]
                ELSE IF e.k = "Timestamped"
                THEN [k |-> "Timestamped", v |-> Payload(e.v), ts |-> e.ts]
                ELSE e
            IsMarker(e) == e.k = "Item" /\ e.v.t \in {"LeftEnd", "RightEnd"}
        IN  /\ \A i \in 1..Len(wr.log) :
                  LET kept == SelectSeq(wr.log[i].in,
                                 LAMBDA e : ~(wr.side.cached /\ e.k = "Terminate"))
                      o == wr.log[i].out
                  IN  /\ SelectSeq(o, LAMBDA e : ~IsMarker(e))
                            = [j \in 1..Len(kept) |-> Expected(kept[j])]
                      /\ \A j \in 1..Len(o) : IsMarker(o[j]) =>
                            /\ o[j] = Item(EndOf(tag))
                            /\ j < Len(o) /\ o[j + 1] = FlushAndRestart
            /\ wr.side.cache = IF wr.side.cached
                               THEN [i \in 1..Len(wr.log) |-> wr.log[i].out]
                               ELSE <<>>

\* A cached side with one replica: a batch of a timestamped element and a
\* FlushAndRestart has been returned with the end marker in it, and the
\* batch of its Terminate has been returned empty.
C30_Witness ==
    /\ wr # <<>> /\ wr.side.cached /\ ~wr.panicked /\ wr.tag = "R"
    /\ Len(wr.log) = 2
    /\ wr.log[1].in = << Timestamped(2, 5), FlushAndRestart >>
    /\ wr.log[1].out = << Timestamped(BRight(2), 5), Item(RightEnd), FlushAndRestart >>
    /\ wr.log[2] = [in |-> << Terminate >>, out |-> <<>>]

(***************************************************************************)
(* C31.  Timestamp of the aggregate: the aggregate of a pass is returned   *)
(* as Timestamped(acc, t), t the largest timestamp of the Timestamped      *)
(* elements of that pass, when the pass holds at least one (plain Items    *)
(* beside them or not), and as Item(acc) otherwise; a timestamp of an      *)
(* earlier pass never shows in the aggregate of a later one.               *)
(***************************************************************************)
C31_Timestamps ==
    /\ Len(FbAggregates) <= Len(FbDataPasses)
    /\ \A i \in 1..Len(FbAggregates) :
          LET p == FbDataPasses[i]
              a == FbAggregates[i]
          IN  IF TimestampsOf(p) # {}
              THEN a.k = "Timestamped" /\ a.ts = MaxOf(TimestampsOf(p))
              ELSE a.k = "Item"
    /\ IsSome(fb.timestamp) => IsSome(fb.accumulator)

\* A pass of a Timestamped element and an Item, then a pass of one Item:
\* the first aggregate carries the timestamp, the second none.
C31_Witness ==
    /\ fbIn = << Timestamped(3, 2), Item(1), FlushAndRestart, Item(2) >>
    /\ Len(fbOut) = 4
    /\ fbOut[1].k = "Timestamped" /\ fbOut[1].ts = 2
    /\ fbOut[2] = FlushAndRestart
    /\ fbOut[3].k = "Item" /\ fbOut[4] = Terminate

(***************************************************************************)
(* C32.  FoldBatch ignores FlushBatch: the arm of a FlushBatch leaves      *)
(* every field of the operator as it was; no FlushBatch is returned; and   *)
(* the values returned, with the fields after each call, are those of the  *)
(* same calls over the upstream without its FlushBatch elements, so no     *)
(* partial aggregate is returned.                                          *)
(***************************************************************************)
FbNotFlushBatch(e) == e.k # "FlushBatch"

\* The fields and the returned values after n calls of next() over q.
RECURSIVE FbRun(_, _, _)
FbRun(s, q, n) ==
    IF n = 0 THEN [s |-> s, out |-> <<>>]
    ELSE LET res == FbNextResult(s, q)
             rest == FbRun(res.s, res.q, n - 1)
         IN  [s |-> rest.s, out |-> << res.r >> \o rest.out]

\* The fields before and after each FlushBatch arm of the loop of a call.
RECURSIVE FbFlushBatchSteps(_, _)
FbFlushBatchSteps(s, q) ==
    IF s.received_end THEN {}
    ELSE LET el == PrevNext(q)
             s1 == FbStep(s, el)
         IN  (IF el.k = "FlushBatch" THEN { <<s, s1>> } ELSE {})
                \cup FbFlushBatchSteps(s1, PrevRest(q))

FbQueueLeft ==
    IF fbPulled >= Len(fbIn) THEN <<>> ELSE SubSeq(fbIn, fbPulled + 1, Len(fbIn))

C32_FlushBatchIgnored ==
    /\ \A i \in 1..Len(fbOut) : fbOut[i].k # "FlushBatch"
    /\ \A st \in FbFlushBatchSteps(fb, FbQueueLeft) : st[1] = st[2]
    /\ LET r == FbRun(FoldBatchNew(fb.batch_size),
                      SelectSeq(fbIn, FbNotFlushBatch), Len(fbOut))
       IN  r.out = fbOut /\ r.s = fb

\* A FlushBatch received with one element in a store of two: the aggregate
\* comes at the end of the pass only, and holds both elements in one batch.
C32_Witness ==
    /\ fb.batch_size = 2
    /\ fbIn = << Item(1), FlushBatch, Item(2), FlushAndRestart >>
    /\ fbOut = << Item(<< <<1, 2>> >>), FlushAndRestart >>

(***************************************************************************)
(* C33.  Watermark promise kept by FoldBatch: when upstream sends no       *)
(* Timestamped element with a timestamp <= ts after a Watermark(ts), no    *)
(* Timestamped aggregate returned after a Watermark(ts) has a timestamp    *)
(* <= ts, in the same pass or a later one.                                 *)
(***************************************************************************)
FbPromiseKept(q) ==
    \A i, j \in 1..Len(q) :
        (i < j /\ q[i].k = "Watermark" /\ q[j].k = "Timestamped") => q[j].ts > q[i].ts

C33_WatermarkPromise ==
    FbPromiseKept(fbIn) => FbPromiseKept(fbOut)

\* A watermark returned in the first pass and a Timestamped aggregate with a
\* larger timestamp returned in the second.
C33_Witness ==
    /\ fbIn = << Watermark(1), FlushAndRestart, Timestamped(3, 2), FlushAndRestart >>
    /\ Len(fbOut) >= 3
    /\ fbOut[1] = Watermark(1) /\ fbOut[2] = FlushAndRestart
    /\ fbOut[3].k = "Timestamped" /\ fbOut[3].ts = 2

(***************************************************************************)
(* C35.  FoldBatch on an empty pass: for a pass that holds no Item and no  *)
(* Timestamped element before its FlushAndRestart (or Terminate), next()   *)
(* returns no aggregate (no Item(init)): it returns the pending watermark, *)
(* if the pass holds one, and then the end marker of the pass.             *)
(***************************************************************************)
C35_EmptyPass ==
    LET ins == PassesOf(FbConsumed)
        outs == PassesOf(UpToTerminate(fbOut))
    IN  /\ Len(outs) <= Len(ins)
        /\ \A i \in 1..Len(outs) :
              Payloads(ins[i]) = <<>> =>
                  LET e == PassWatermark(ins[i]) \o << ins[i][Len(ins[i])] >>
                  IN  /\ IsPrefix(outs[i], e)
                      /\ IsEndMarker(outs[i][Len(outs[i])]) => outs[i] = e
        /\ (fbPulled > 0 /\ Payloads(ins[Len(ins)]) = <<>>) => fb.accumulator = None

\* A pass holding a watermark only, closed by FlushAndRestart, and the pass
\* of the Terminate, which holds nothing.
C35_Witness ==
    /\ fbIn = << Watermark(2), FlushBatch, FlushAndRestart >>
    /\ fbOut = << Watermark(2), FlushAndRestart, Terminate >>

(***************************************************************************)
(* C36.  Batching discipline of FoldBatch: the batches the fold function   *)
(* was called with for a pass, put end to end, are the data elements of    *)
(* the pass in arrival order, each element once; every batch holds between *)
(* 1 and batch_size elements and every batch but the last exactly          *)
(* batch_size (the call is made as soon as the store is full, so the store *)
(* never holds batch_size elements after an arm of the loop); no call is   *)
(* made with an empty batch, so a pass whose length is a multiple of       *)
(* batch_size gets no final call.                                          *)
(***************************************************************************)
\* The fields after each arm of the loop of a call of next().
RECURSIVE FbLoopStates(_, _)
FbLoopStates(s, q) ==
    IF s.received_end THEN {}
    ELSE LET s1 == FbStep(s, PrevNext(q))
         IN  { s1 } \cup FbLoopStates(s1, PrevRest(q))

C36_Batching ==
    /\ \A i \in 1..Len(FbAggregates) :
          LET calls == FbAggregates[i].v
          IN  /\ i <= Len(FbDataPasses)
              /\ Flatten(calls) = Payloads(FbDataPasses[i])
              /\ \A c \in 1..Len(calls) :
                    /\ Len(calls[c]) \in 1..fb.batch_size
                    /\ c < Len(calls) => Len(calls[c]) = fb.batch_size
    /\ \A s \in FbLoopStates(fb, FbQueueLeft) :
          /\ IsSome(s.store) =>
                /\ Len(Unwrap(s.store)) \in 1..(s.batch_size - 1)
                /\ IsSome(s.accumulator)
          /\ IsSome(s.accumulator) =>
                \A c \in 1..Len(Unwrap(s.accumulator)) :
                    Len(Unwrap(s.accumulator)[c]) = s.batch_size

\* A pass of four elements with batch_size 2: two calls of two elements and
\* no third call.
C36_Witness ==
    /\ fb.batch_size = 2
    /\ fbIn = << Item(1), Item(2), Timestamped(3, 1), Item(1) >>
    /\ fbOut = << Timestamped(<< <<1, 2>>, <<3, 1>> >>, 1), Terminate >>

(***************************************************************************)
(* C34.  RowCsvSource control sequence: the values returned by successive  *)
(* calls of next() are zero or more Item, then exactly one                 *)
(* FlushAndRestart, then Terminate on every later call; FlushAndRestart is *)
(* returned only when the reader has reached the end of the chunk, never   *)
(* between two records.                                                    *)
(***************************************************************************)
C34_ControlSequence ==
    csvSrc # <<>> =>
        LET o == csvSrc.returned
        IN  \A i \in 1..Len(o) :
              /\ o[i].e.k \in {"Item", "FlushAndRestart", "Terminate"}
              /\ o[i].e.k = "Item" => \A j \in 1..(i - 1) : o[j].e.k = "Item"
              /\ o[i].e.k = "FlushAndRestart" =>
                    /\ \A j \in 1..(i - 1) : o[j].e.k = "Item"
                    /\ o[i].eof
              /\ o[i].e.k = "Terminate" =>
                    i > 1 /\ o[i - 1].e.k \in {"FlushAndRestart", "Terminate"}

(***************************************************************************)
(* C37.  The cache is frozen once captured: from the moment cache_full of  *)
(* the cached side is true, no batch is received from the cached side, and *)
(* its cache keeps its content and length (cache_full, cached, instances   *)
(* and missing_terminate stay too); of the fields of the cache only        *)
(* cache_pointer moves, and it is always within 0..len(cache).             *)
(***************************************************************************)
C37_CacheFrozen ==
    /\ [](Running => \A s \in Sides :
              SideOf(s).cache_pointer \in 0..Len(SideOf(s).cache))
    /\ [][ \A s \in Sides :
              (Running /\ SideOf(s).cached /\ SideOf(s).cache_full) =>
                  /\ chan'[s] = chan[s]
                  /\ SideOf(s)'.cache = SideOf(s).cache
                  /\ SideOf(s)'.cache_full
                  /\ SideOf(s)'.cached
                  /\ SideOf(s)'.instances = SideOf(s).instances
                  /\ SideOf(s)'.missing_terminate = SideOf(s).missing_terminate ]_vars
    /\ [](Running => \A s \in Sides :
              (SideOf(s).cached /\ SideOf(s).cache_full) =>
                  (IsTerminated(SideOf(s)) /\ chan[s] = <<>>))

\* The second iteration with a cached side: the first batch of the cache
\* has been replayed, the pointer is in the middle of the cache.
C37_Witness ==
    /\ pc = "run" /\ iter = 2 /\ cfg.passes = 2 /\ CachedSide \in Sides
    /\ SideOf(CachedSide).cache_full
    /\ Len(SideOf(CachedSide).cache) >= 2
    /\ SideOf(CachedSide).cache_pointer = 1
    /\ ret.kind = "batch" /\ ret.src = "cache"

(***************************************************************************)
(* C38.  No counter underflow in BinaryStartReceiver: when the element     *)
(* stream of each upstream replica matches the stream grammar, however the *)
(* elements are grouped into batches and however the replicas of a side    *)
(* interleave, every decrement of missing_flush_and_restart and of         *)
(* missing_terminate in process_side finds the counter greater than 0.     *)
(***************************************************************************)
C38_NoUnderflow ==
    [][ \A s \in Sides :
          (pc = "run" /\ Len(chan'[s]) < Len(chan[s])) =>
              LET at == SelectAfterReset
              IN  ~ProcessSide(IF s = "L" THEN at.left ELSE at.right,
                               Head(chan[s]), s).under ]_vars

(***************************************************************************)
(* C39.  Per-iteration FlushAndRestart count: in every iteration, live or  *)
(* replayed from the cache, the number of FlushAndRestart elements emitted *)
(* by the receiver equals left.instances + right.instances, the replayed   *)
(* cache contributing exactly cached_side.instances of them; no            *)
(* FlushAndRestart is emitted outside the iterations the non-cached side   *)
(* started, so a downstream counter that waits for one FlushAndRestart per *)
(* upstream replica completes exactly once per iteration and is never left *)
(* part-way.                                                               *)
(***************************************************************************)
FlushesIn(h, i) == CountOf(h, LAMBDA x : x.e.k = "FlushAndRestart" /\ x.it = i)
FlushesOfIter(i) == FlushesIn(out["L"], i) + FlushesIn(out["R"], i) + FlushesIn(out["S"], i)
ReplayedFlushes(i) ==
    CountOf(out[CachedSide], LAMBDA x : x.e.k = "FlushAndRestart" /\ x.it = i /\ ~x.live)

C39_FlushPerIteration ==
    Running =>
        \A i \in 1..iter :
            /\ FlushesOfIter(i) <= left.instances + right.instances
            /\ i < iter => FlushesOfIter(i) = left.instances + right.instances
            /\ i > cfg.passes => FlushesOfIter(i) = 0
            /\ (CachedSide \in Sides /\ 1 < i /\ i < iter) =>
                   ReplayedFlushes(i) = SideOf(CachedSide).instances

=============================================================================
